---- MODULE Spec2Model ----
(***************************************************************************)
(* Crash recovery core of the storage engine: the write-ahead log, the     *)
(* fuzzy checkpoint with its sidecar file, log truncation, and the         *)
(* three-phase recovery manager (Analysis, Redo, Undo).                    *)
(***************************************************************************)
EXTENDS Integers, Sequences, FiniteSets, TLC

VARIABLES
    log,              \* records of the file at the canonical WAL path, in file order
    walExists,        \* whether a file exists at the canonical WAL path
    nextLSN,          \* the writer's current LSN (end-of-log offset)
    nextTid,          \* next transaction id handed out
    activeTxns,       \* WAL.activeTxns: tid -> TransactionLogInfo
    dirtyPages,       \* WAL.dirtyPages: page -> first LSN that dirtied it
    pages,            \* page store contents as the engine sees them
    disk,             \* page images that survive a crash
    phase,            \* "run", "crashed", "analysed", "redone", "undoing", "done"
    ckPc,             \* per WriteCheckpoint caller: position inside WriteCheckpoint
    ckBegin,          \* per caller: beginLSN
    ckData,           \* per caller: checkpointData (the serialized snapshot)
    ckFd,             \* per caller: the file its open descriptor refers to
    ckRet,            \* per caller: result of its last WriteCheckpoint call
    ckPublished,      \* history, per caller: its snapshot has been at <wal>.checkpoint in this call
    sidecarFile,      \* the file at <wal>.checkpoint
    tmpFile,          \* the file at <wal>.checkpoint.tmp
    transactionTable, \* RecoveryManager.transactionTable
    dirtyPageTable,   \* RecoveryManager.dirtyPageTable
    stats,            \* RecoveryManager.stats
    rmScan,           \* analysisPhase locals: startLSN, whether a checkpoint seeded the tables
    undoTodo,         \* undoPhase: uncommittedTxns not yet passed to undoTransaction
    hist,             \* history: what the first Recover on this manager left behind
    trunc,            \* TruncateWAL / performTruncation in progress
    damage,           \* the record of the WAL file that cannot be read, if any
    codec,            \* a checkpoint record, its serialized bytes and what they deserialize to
    daemon            \* CheckpointDaemon: configuration, fields, clock, position of run and Stop

vars == <<log, walExists, nextLSN, nextTid, activeTxns, dirtyPages, pages, disk, phase,
          ckPc, ckBegin, ckData, ckFd, ckRet, ckPublished, sidecarFile, tmpFile,
          transactionTable, dirtyPageTable, stats, rmScan, undoTodo, hist, trunc, damage, codec, daemon>>

walVars  == <<log, walExists, nextLSN, nextTid, activeTxns, dirtyPages>>
pageVars == <<pages, disk>>
ckVars   == <<ckPc, ckBegin, ckData, ckFd, ckRet, ckPublished, sidecarFile, tmpFile>>
rmVars   == <<transactionTable, dirtyPageTable, stats, rmScan, undoTodo, hist>>

----------------------------------------------------------------------------
\* Bounds of the model
MaxTxn  == 2          \* transaction ids 1..MaxTxn
MaxPage == 2          \* page hash codes 1..MaxPage
MaxVal  == 1          \* page images 0..MaxVal (0 is the image before any write)
MaxLog  == 5          \* records the log may hold
RecSize == 1024       \* bytes of one serialized log record

Tids   == 1..MaxTxn
PageIds == 1..MaxPage
Vals   == 1..MaxVal
Procs  == {"daemon", "manual"}

\* Record types (record.LogRecordType)
BeginRecord     == "Begin"
UpdateRecord    == "Update"
InsertRecord    == "Insert"
DeleteRecord    == "Delete"
CommitRecord    == "Commit"
AbortRecord     == "Abort"
CheckpointBegin == "CheckpointBegin"
CheckpointEnd   == "CheckpointEnd"
CLRRecord       == "CLR"

DataTypes == {UpdateRecord, InsertRecord, DeleteRecord}

\* TransactionStatus
TxnActive    == "Active"
TxnCommitted == "Committed"
TxnAborted   == "Aborted"

\* A log record. TID 0 is the nil transaction id of checkpoint records, PageID 0 no page.
NewLogRecord(type, tid, page, before, after, prev) ==
    [LSN |-> 0, Type |-> type, TID |-> tid, PageID |-> page,
     BeforeImage |-> before, AfterImage |-> after, PrevLSN |-> prev, UndoNextLSN |-> 0]

EmptyMap == [x \in {} |-> 0]

MapPut(f, k, v) == [x \in (DOMAIN f) \cup {k} |-> IF x = k THEN v ELSE f[x]]

MapDel(f, k) == [x \in (DOMAIN f) \ {k} |-> f[x]]

RecordsOf(l) == {l[i] : i \in 1..Len(l)}

----------------------------------------------------------------------------
\* WAL writer: appends at the current end of log; the LSN is the byte offset.

\* writeRecord: the record gets the writer's current LSN and is appended.
Appended(rec) == Append(log, [rec EXCEPT !.LSN = nextLSN])

\* A record can be appended; cap bounds the records the WAL file may hold
CanAppendWithin(cap) == phase = "run" /\ walExists /\ trunc.pc = "idle" /\ Len(log) < cap

CanAppend == CanAppendWithin(MaxLog)

\* Pages a running transaction holds write locks on (strict two-phase locking).
LockedBy(t) == {r.PageID : r \in {x \in RecordsOf(log) : x.TID = t /\ x.Type \in DataTypes}}

LockedByOther(t, p) == \E o \in (DOMAIN activeTxns) \ {t} : p \in LockedBy(o)

LogBeginWithin(cap) ==
    /\ CanAppendWithin(cap)
    /\ nextTid \in Tids
    /\ log' = Appended(NewLogRecord(BeginRecord, nextTid, 0, 0, 0, 0))
    /\ nextLSN' = nextLSN + RecSize
    /\ activeTxns' = MapPut(activeTxns, nextTid,
                            [FirstLSN |-> nextLSN, LastLSN |-> nextLSN, UndoNextLSN |-> nextLSN])
    /\ nextTid' = nextTid + 1
    /\ UNCHANGED <<walExists, dirtyPages, pageVars, phase, ckVars, rmVars, trunc, damage, codec, daemon>>

LogBegin == LogBeginWithin(MaxLog)

\* LogUpdate / LogInsert / LogDelete: the before-image is the page's current image.
LogDataWithin(cap, t, type, p, v) ==
    /\ CanAppendWithin(cap)
    /\ t \in DOMAIN activeTxns
    /\ ~LockedByOther(t, p)
    /\ log' = Appended(NewLogRecord(type, t, p, pages[p], v, activeTxns[t].LastLSN))
    /\ nextLSN' = nextLSN + RecSize
    /\ activeTxns' = [activeTxns EXCEPT ![t].LastLSN = nextLSN,
                                        ![t].UndoNextLSN = activeTxns[t].LastLSN]
    /\ dirtyPages' = IF p \in DOMAIN dirtyPages THEN dirtyPages
                     ELSE MapPut(dirtyPages, p, nextLSN)
    /\ pages' = [pages EXCEPT ![p] = v]
    /\ UNCHANGED <<walExists, nextTid, disk, phase, ckVars, rmVars, trunc, damage, codec, daemon>>

LogData(t, type, p, v) == LogDataWithin(MaxLog, t, type, p, v)

\* commit_transaction: the Commit record is forced; the transaction leaves activeTxns.
LogCommitWithin(cap, t) ==
    /\ CanAppendWithin(cap)
    /\ t \in DOMAIN activeTxns
    /\ log' = Appended(NewLogRecord(CommitRecord, t, 0, 0, 0, activeTxns[t].LastLSN))
    /\ nextLSN' = nextLSN + RecSize
    /\ activeTxns' = MapDel(activeTxns, t)
    /\ UNCHANGED <<walExists, nextTid, dirtyPages, pageVars, phase, ckVars, rmVars, trunc, damage, codec, daemon>>

LogCommit(t) == LogCommitWithin(MaxLog, t)

\* The image a page had before transaction t first wrote it.
FirstBefore(l, t, p) ==
    LET idx == {i \in 1..Len(l) : l[i].TID = t /\ l[i].Type \in DataTypes /\ l[i].PageID = p}
        first == CHOOSE i \in idx : \A j \in idx : i <= j
    IN  l[first].BeforeImage

\* Rollback at run time: the pages of t get their before-images back, then Abort is logged.
LogAbort(t) ==
    /\ CanAppend
    /\ t \in DOMAIN activeTxns
    /\ log' = Appended(NewLogRecord(AbortRecord, t, 0, 0, 0, activeTxns[t].LastLSN))
    /\ nextLSN' = nextLSN + RecSize
    /\ activeTxns' = MapDel(activeTxns, t)
    /\ pages' = [p \in PageIds |-> IF p \in LockedBy(t) THEN FirstBefore(log, t, p) ELSE pages[p]]
    /\ UNCHANGED <<walExists, nextTid, dirtyPages, disk, phase, ckVars, rmVars, trunc, damage, codec, daemon>>

\* flush_page: the buffer pool writes a page image to disk (the log is already durable).
FlushPage(p) ==
    /\ phase = "run"
    /\ disk[p] # pages[p]
    /\ disk' = [disk EXCEPT ![p] = pages[p]]
    /\ UNCHANGED <<walVars, pages, phase, ckVars, rmVars, trunc, damage, codec, daemon>>

----------------------------------------------------------------------------
\* Checkpoint snapshot and its serialization

RECURSIVE SortedSeq(_)
SortedSeq(S) ==
    IF S = {} THEN <<>>
    ELSE LET m == CHOOSE x \in S : \A y \in S : x <= y
         IN  <<m>> \o SortedSeq(S \ {m})

\* A checkpoint record that keeps the dirty pages of the active transactions only
NewCheckpointRecord_ActivePagesOnly(txns, dpages) ==
    [LSN |-> 0,
     ActiveTxns |-> [t \in DOMAIN txns |-> txns[t]],
     DirtyPages |-> [p \in {q \in DOMAIN dpages : \E t \in DOMAIN txns :
                                  dpages[q] >= txns[t].FirstLSN} |-> dpages[p]]]

\* NewCheckpointRecord: the maps re-keyed by tid.ID() and pageID.HashCode(); LSN is left zero.
NewCheckpointRecord(txns, dpages) ==
    [LSN |-> 0,
     ActiveTxns |-> [t \in DOMAIN txns |-> txns[t]],
     DirtyPages |-> [p \in DOMAIN dpages |-> dpages[p]]]

\* SerializeCheckpoint: [Size:4][LSN:8][Timestamp:8][NumTxns:4][TxnData...][NumPages:4][PageData...]
SerializeCheckpoint(cp) ==
    LET ts == SortedSeq(DOMAIN cp.ActiveTxns)
        ps == SortedSeq(DOMAIN cp.DirtyPages)
    IN  [Size  |-> 4 + 8 + 8 + 4 + 32 * Len(ts) + 4 + 16 * Len(ps),
         LSN   |-> cp.LSN,
         Txns  |-> [i \in 1..Len(ts) |->
                      <<ts[i], cp.ActiveTxns[ts[i]].FirstLSN, cp.ActiveTxns[ts[i]].LastLSN,
                        cp.ActiveTxns[ts[i]].UndoNextLSN>>],
         Pages |-> [i \in 1..Len(ps) |-> <<ps[i], cp.DirtyPages[ps[i]]>>]]

\* A deserializer that reads the fields of a transaction entry in the wrong order
DeserializeCheckpoint_FieldsSwapped(data) ==
    [LSN |-> data.LSN,
     ActiveTxns |-> [t \in {data.Txns[i][1] : i \in 1..Len(data.Txns)} |->
                       LET i == CHOOSE j \in 1..Len(data.Txns) : data.Txns[j][1] = t
                       IN  [FirstLSN |-> data.Txns[i][3], LastLSN |-> data.Txns[i][2],
                            UndoNextLSN |-> data.Txns[i][4]]],
     DirtyPages |-> [p \in {data.Pages[i][1] : i \in 1..Len(data.Pages)} |->
                       LET i == CHOOSE j \in 1..Len(data.Pages) : data.Pages[j][1] = p
                       IN  data.Pages[i][2]]]

\* DeserializeCheckpoint: rebuilds the maps from the transaction and page lists.
DeserializeCheckpoint(data) ==
    [LSN |-> data.LSN,
     ActiveTxns |-> [t \in {data.Txns[i][1] : i \in 1..Len(data.Txns)} |->
                       LET i == CHOOSE j \in 1..Len(data.Txns) :
                                   /\ data.Txns[j][1] = t
                                   /\ \A k \in 1..Len(data.Txns) : data.Txns[k][1] = t => k <= j
                       IN  [FirstLSN |-> data.Txns[i][2], LastLSN |-> data.Txns[i][3],
                            UndoNextLSN |-> data.Txns[i][4]]],
     DirtyPages |-> [p \in {data.Pages[i][1] : i \in 1..Len(data.Pages)} |->
                       LET i == CHOOSE j \in 1..Len(data.Pages) :
                                   /\ data.Pages[j][1] = p
                                   /\ \A k \in 1..Len(data.Pages) : data.Pages[k][1] = p => k <= j
                       IN  data.Pages[i][2]]]

NoData == [Size |-> 0, LSN |-> 0, Txns |-> <<>>, Pages |-> <<>>]

\* A file of the sidecar directory: len bytes long, its leading bytes being `data`.
NoFile    == [exists |-> FALSE, len |-> 0, data |-> NoData]
EmptyFile == [exists |-> TRUE, len |-> 0, data |-> NoData]

\* A write of `data` at offset 0 of a file: bytes beyond the new data stay.
WriteAt0(f, data) ==
    [exists |-> f.exists, len |-> IF f.len > data.Size THEN f.len ELSE data.Size, data |-> data]

\* The file is exactly one serialized snapshot.
CompleteSnapshot(f) == f.exists /\ f.data.Size > 0 /\ f.len = f.data.Size

\* GetLastCheckpoint without the os.IsNotExist case: a missing sidecar is a read error
GetLastCheckpoint_NotExistIsError(f) ==
    IF ~f.exists \/ f.len < 4 \/ f.len < f.data.Size
    THEN [res |-> "err", cp |-> NewCheckpointRecord(EmptyMap, EmptyMap)]
    ELSE [res |-> "ok", cp |-> DeserializeCheckpoint(f.data)]

\* GetLastCheckpoint: nil when the sidecar does not exist, an error when it cannot be
\* deserialized, else the deserialized checkpoint.
GetLastCheckpoint(f) ==
    IF ~f.exists THEN [res |-> "nil", cp |-> NewCheckpointRecord(EmptyMap, EmptyMap)]
    ELSE IF f.len < 4 \/ f.len < f.data.Size
         THEN [res |-> "err", cp |-> NewCheckpointRecord(EmptyMap, EmptyMap)]
         ELSE [res |-> "ok", cp |-> DeserializeCheckpoint(f.data)]

NoRet == [st |-> "none", lsn |-> 0, begin |-> 0]

\* The callers whose snapshot can be read at the canonical sidecar path: the caller has
\* serialized its snapshot and the leading bytes of the file are that snapshot
PublishedIn(pub, pcs, datas, side) ==
    [q \in Procs |-> pub[q] \/ (/\ pcs[q] \in {"snapped", "opened", "written", "renamed"}
                                /\ side.exists /\ datas[q].Size > 0
                                /\ side.data = datas[q] /\ side.len >= datas[q].Size)]

\* WriteCheckpoint phase 1: writeCheckpointBegin
CkBeginStepWithin(cap, p) ==
    /\ CanAppendWithin(cap)
    /\ ckPc[p] = "idle"
    /\ log' = Appended(NewLogRecord(CheckpointBegin, 0, 0, 0, 0, 0))
    /\ nextLSN' = nextLSN + RecSize
    /\ ckBegin' = [ckBegin EXCEPT ![p] = nextLSN]
    /\ ckPc' = [ckPc EXCEPT ![p] = "begun"]
    /\ ckRet' = [ckRet EXCEPT ![p] = NoRet]
    /\ ckPublished' = [ckPublished EXCEPT ![p] = FALSE]
    /\ UNCHANGED <<walExists, nextTid, activeTxns, dirtyPages, pageVars, phase, ckData, ckFd,
                   sidecarFile, tmpFile, rmVars, trunc, damage, codec, daemon>>

CkBeginStep(p) == CkBeginStepWithin(MaxLog, p)

\* The snapshot record without the assignment of beginLSN: LSN stays zero
SnapshotRecord_LSNLeftZero(txns, dpages, beginLSN) == NewCheckpointRecord(txns, dpages)

\* A snapshot record stamped with an LSN two records past CheckpointBegin
SnapshotRecord_LSNPastBegin(txns, dpages, beginLSN) ==
    [NewCheckpointRecord(txns, dpages) EXCEPT !.LSN = beginLSN + 2 * RecSize]

\* The snapshot record of phases 2 and 3: checkpointRec.LSN = beginLSN
SnapshotRecord(txns, dpages, beginLSN) ==
    [NewCheckpointRecord(txns, dpages) EXCEPT !.LSN = beginLSN]

\* WriteCheckpoint phases 2 and 3: snapshot under the read lock, serialize
CkSnapshot(p) ==
    /\ phase = "run" /\ trunc.pc = "idle"
    /\ ckPc[p] = "begun"
    /\ ckData' = [ckData EXCEPT ![p] =
                     SerializeCheckpoint(SnapshotRecord(activeTxns, dirtyPages, ckBegin[p]))]
    /\ ckPc' = [ckPc EXCEPT ![p] = "snapped"]
    /\ ckPublished' = PublishedIn(ckPublished, ckPc', ckData', sidecarFile)
    /\ UNCHANGED <<walVars, pageVars, phase, ckBegin, ckFd, ckRet, sidecarFile, tmpFile,
                   rmVars, trunc, damage, codec, daemon>>

\* WriteCheckpoint phases 2 to 4 of a caller that runs alone: snapshot, serialize, and
\* writeCheckpointFile (temporary file written, then renamed over the sidecar).
CkPublish(p) ==
    /\ phase = "run" /\ trunc.pc = "idle"
    /\ ckPc[p] = "begun"
    /\ LET data == SerializeCheckpoint(SnapshotRecord(activeTxns, dirtyPages, ckBegin[p]))
       IN  /\ ckData' = [ckData EXCEPT ![p] = data]
           /\ sidecarFile' = WriteAt0(EmptyFile, data)
    /\ ckPc' = [ckPc EXCEPT ![p] = "renamed"]
    /\ ckPublished' = PublishedIn(ckPublished, ckPc', ckData', sidecarFile')
    /\ UNCHANGED <<walVars, pageVars, phase, ckBegin, ckFd, ckRet, tmpFile, rmVars, trunc, damage, codec, daemon>>

\* writeCheckpointFile, os.WriteFile(tempPath): open with O_CREATE|O_TRUNC
CkOpenTmp(p) ==
    /\ phase = "run"
    /\ ckPc[p] = "snapped"
    /\ tmpFile' = EmptyFile
    /\ ckFd' = [ckFd EXCEPT ![p] = "tmp"]
    /\ ckPc' = [ckPc EXCEPT ![p] = "opened"]
    /\ UNCHANGED <<walVars, pageVars, phase, ckBegin, ckData, ckRet, ckPublished, sidecarFile,
                   rmVars, trunc, damage, codec, daemon>>

\* writeCheckpointFile, os.WriteFile(tempPath): write the data through the descriptor, close
CkWriteTmp(p) ==
    /\ phase = "run"
    /\ ckPc[p] = "opened"
    /\ tmpFile' = IF ckFd[p] = "tmp" THEN WriteAt0(tmpFile, ckData[p]) ELSE tmpFile
    /\ sidecarFile' = IF ckFd[p] = "side" THEN WriteAt0(sidecarFile, ckData[p]) ELSE sidecarFile
    /\ ckFd' = [ckFd EXCEPT ![p] = "none"]
    /\ ckPc' = [ckPc EXCEPT ![p] = "written"]
    /\ ckPublished' = PublishedIn(ckPublished, ckPc', ckData, sidecarFile')
    /\ UNCHANGED <<walVars, pageVars, phase, ckBegin, ckData, ckRet, rmVars, trunc, damage, codec, daemon>>

\* writeCheckpointFile, os.Rename(tempPath, path); a failed rename fails WriteCheckpoint
CkRename(p) ==
    /\ phase = "run"
    /\ ckPc[p] = "written"
    /\ IF tmpFile.exists
       THEN /\ sidecarFile' = tmpFile
            /\ tmpFile' = NoFile
            /\ ckFd' = [q \in Procs |-> CASE ckFd[q] = "tmp"  -> "side"
                                          [] ckFd[q] = "side" -> "orphan"
                                          [] OTHER            -> ckFd[q]]
            /\ ckPc' = [ckPc EXCEPT ![p] = "renamed"]
            /\ ckRet' = ckRet
            /\ ckPublished' = PublishedIn(ckPublished, ckPc', ckData, sidecarFile')
       ELSE /\ UNCHANGED <<sidecarFile, tmpFile, ckFd>>
            /\ ckPc' = [ckPc EXCEPT ![p] = "idle"]
            /\ ckRet' = [ckRet EXCEPT ![p] = [st |-> "err", lsn |-> 0, begin |-> ckBegin[p]]]
            /\ ckPublished' = [ckPublished EXCEPT ![p] = FALSE]
    /\ UNCHANGED <<walVars, pageVars, phase, ckBegin, ckData, rmVars, trunc, damage, codec, daemon>>

\* WriteCheckpoint phases 5 and 6: writeCheckpointEnd(beginLSN), Force, return endLSN
CkEndStepWithin(cap, p) ==
    /\ CanAppendWithin(cap)
    /\ ckPc[p] = "renamed"
    /\ log' = Appended(NewLogRecord(CheckpointEnd, 0, 0, 0, 0, ckBegin[p]))
    /\ nextLSN' = nextLSN + RecSize
    /\ ckRet' = [ckRet EXCEPT ![p] = [st |-> "ok", lsn |-> nextLSN, begin |-> ckBegin[p]]]
    /\ ckPc' = [ckPc EXCEPT ![p] = "idle"]
    /\ ckPublished' = [ckPublished EXCEPT ![p] = FALSE]
    /\ UNCHANGED <<walExists, nextTid, activeTxns, dirtyPages, pageVars, phase, ckBegin, ckData,
                   ckFd, sidecarFile, tmpFile, rmVars, trunc, damage, codec, daemon>>

CkEndStep(p) == CkEndStepWithin(MaxLog, p)

----------------------------------------------------------------------------
\* Recovery manager

ZeroStats == [LogRecordsScanned |-> 0, RedoOperations |-> 0, UndoOperations |-> 0,
              TransactionsRecovered |-> 0, TransactionsUndone |-> 0, DirtyPagesFound |-> 0]

TransactionInfo(status, first, last, undoNext) ==
    [Status |-> status, FirstLSN |-> first, LastLSN |-> last, UndoNextLSN |-> undoNext]

\* A Commit or Abort record that leaves the status of a known transaction as it was
EndTransaction_StatusKept(tt, rec, status) ==
    IF rec.TID \in DOMAIN tt
    THEN [tt EXCEPT ![rec.TID].LastLSN = rec.LSN]
    ELSE MapPut(tt, rec.TID, TransactionInfo(status, rec.LSN, rec.LSN, 0))

\* processAnalysisRecord, cases CommitRecord and AbortRecord: the transaction's entry gets
\* the end status and LastLSN; an unknown transaction gets a new entry
EndTransaction(tt, rec, status) ==
    IF rec.TID \in DOMAIN tt
    THEN [tt EXCEPT ![rec.TID].Status = status, ![rec.TID].LastLSN = rec.LSN]
    ELSE MapPut(tt, rec.TID, TransactionInfo(status, rec.LSN, rec.LSN, 0))

\* A dirty page table entry overwritten by every record on the page
DptPut_Overwrites(dpt, rec) == MapPut(dpt, rec.PageID, rec.LSN)

\* processAnalysisRecord, data and CLR cases: "Add to dirty page table if not already
\* present"
DptPut(dpt, rec) ==
    IF rec.PageID \in DOMAIN dpt THEN dpt ELSE MapPut(dpt, rec.PageID, rec.LSN)

\* processAnalysisRecord on the tables st = [tt, dpt]
ProcessAnalysisRecord(st, rec) ==
    LET tt  == st.tt
        dpt == st.dpt
        t   == rec.TID
        has == t \in DOMAIN tt
        dptPut == DptPut(dpt, rec)
    IN  CASE rec.Type \in {CheckpointBegin, CheckpointEnd} -> st
          [] rec.Type = BeginRecord ->
                [tt |-> MapPut(tt, t, TransactionInfo(TxnActive, rec.LSN, rec.LSN, rec.LSN)),
                 dpt |-> dpt]
          [] rec.Type = CommitRecord ->
                [tt |-> EndTransaction(tt, rec, TxnCommitted), dpt |-> dpt]
          [] rec.Type = AbortRecord ->
                [tt |-> EndTransaction(tt, rec, TxnAborted), dpt |-> dpt]
          [] rec.Type \in DataTypes ->
                [tt |-> IF has THEN [tt EXCEPT ![t].LastLSN = rec.LSN,
                                               ![t].UndoNextLSN = rec.PrevLSN]
                        ELSE MapPut(tt, t, TransactionInfo(TxnActive, rec.LSN, rec.LSN, rec.PrevLSN)),
                 dpt |-> dptPut]
          [] rec.Type = CLRRecord ->
                [tt |-> IF has THEN [tt EXCEPT ![t].LastLSN = rec.LSN,
                                               ![t].UndoNextLSN = rec.UndoNextLSN]
                        ELSE tt,
                 dpt |-> dptPut]
          [] OTHER -> st

\* The scan loop of analysisPhase over the records from position i on
RECURSIVE AnalysisScan(_, _, _, _)
AnalysisScan(l, i, startLSN, st) ==
    IF i > Len(l) THEN st
    ELSE IF l[i].LSN < startLSN
         THEN AnalysisScan(l, i + 1, startLSN, st)
         ELSE LET nx == ProcessAnalysisRecord([tt |-> st.tt, dpt |-> st.dpt], l[i])
              IN  AnalysisScan(l, i + 1, startLSN,
                               [tt |-> nx.tt, dpt |-> nx.dpt, scanned |-> st.scanned + 1])


\* analysisPhase: tables reset, seeded from the checkpoint GetLastCheckpoint returned (if
\* any), then every record with LSN >= startLSN processed in file order.
AnalysisResult(l, ck) ==
    LET seeded   == ck.res = "ok"
        startLSN == IF seeded THEN ck.cp.LSN ELSE 0
        tt0  == IF seeded
                THEN [t \in DOMAIN ck.cp.ActiveTxns |->
                        TransactionInfo(TxnActive, ck.cp.ActiveTxns[t].FirstLSN,
                                        ck.cp.ActiveTxns[t].LastLSN,
                                        ck.cp.ActiveTxns[t].UndoNextLSN)]
                ELSE EmptyMap
        dpt0 == IF seeded THEN ck.cp.DirtyPages ELSE EmptyMap
        st   == AnalysisScan(l, 1, startLSN, [tt |-> tt0, dpt |-> dpt0, scanned |-> 0])
    IN  [tt |-> st.tt, dpt |-> st.dpt, scanned |-> st.scanned,
         startLSN |-> startLSN, seeded |-> seeded, ckRes |-> ck.res]

\* undoPhase collecting every transaction of the table
ActiveIn_All(tt) == DOMAIN tt

\* undoPhase collecting every transaction that did not commit
ActiveIn_NotCommitted(tt) == {t \in DOMAIN tt : tt[t].Status # TxnCommitted}

\* undoPhase: the transactions with Status == TxnActive
ActiveIn(tt) == {t \in DOMAIN tt : tt[t].Status = TxnActive}

\* GetUncommittedTransactions returning every transaction that is not Committed
GetUncommittedTransactions_NotCommitted(tt) == {t \in DOMAIN tt : tt[t].Status # TxnCommitted}

\* GetUncommittedTransactions: the transactions of the table with Status == TxnActive
GetUncommittedTransactions(tt) == {t \in DOMAIN tt : tt[t].Status = TxnActive}

NoHist == [runs |-> 0, tt |-> EmptyMap, dpt |-> EmptyMap, pages |-> [p \in PageIds |-> 0],
           losers |-> {}, undoneBeforeCrash |-> {}]

NoScan == [startLSN |-> 0, seeded |-> FALSE, ckRes |-> "nil", sidecar |-> NoFile,
           err |-> "none"]

\* Every record of the WAL file can be read
NoDamage == [at |-> 0, tail |-> FALSE]

\* A read loop that returns an error when ReadNext fails
ReadRecords_ErrorIsFatal(l, dmg) ==
    IF dmg.at = 0 THEN [recs |-> l, err |-> FALSE]
    ELSE [recs |-> SubSeq(l, 1, dmg.at - 1), err |-> TRUE]

\* The read loops of the recovery manager: "rec, err := reader.ReadNext(); if err != nil
\* { break }". The records before the first one that cannot be read, and no error.
ReadRecords(l, dmg) ==
    IF dmg.at = 0 THEN [recs |-> l, err |-> FALSE]
    ELSE [recs |-> SubSeq(l, 1, dmg.at - 1), err |-> FALSE]

\* Recover going on as if the phase had succeeded
PhaseAfter_ErrorIgnored(err, next) == next

\* Recover: "if err := rm.<phase>(); err != nil { return ... }"
PhaseAfter(err, next) == IF err THEN "failed" ELSE next

MaxRuns == 2          \* Recover calls on one manager

\* Recover, phase 1 (Recover is called on a fresh manager after a crash, or again on the
\* same manager).
AnalysisPhase ==
    /\ phase \in {"crashed", "done"}
    /\ walExists /\ trunc.pc = "idle"
    /\ hist.runs < MaxRuns
    /\ LET rd == ReadRecords(log, damage)
           r  == AnalysisResult(rd.recs, GetLastCheckpoint(sidecarFile))
       IN  /\ transactionTable' = r.tt
           /\ dirtyPageTable' = r.dpt
           /\ rmScan' = [startLSN |-> r.startLSN, seeded |-> r.seeded, ckRes |-> r.ckRes,
                         sidecar |-> sidecarFile,
                         err |-> IF rd.err THEN "read" ELSE "none"]
           /\ phase' = PhaseAfter(rd.err, "analysed")
           /\ stats' = [stats EXCEPT
                          !.LogRecordsScanned = @ + r.scanned,
                          !.TransactionsRecovered = Cardinality(DOMAIN r.tt),
                          !.DirtyPagesFound = Cardinality(DOMAIN r.dpt),
                          !.TransactionsUndone = @ + Cardinality(ActiveIn(r.tt))]
    /\ hist' = IF hist.runs = 0
               THEN [hist EXCEPT !.losers =
                        {t \in Tids : /\ \E x \in RecordsOf(log) : x.TID = t
                                      /\ ~\E x \in RecordsOf(log) :
                                            x.TID = t /\ x.Type \in {CommitRecord, AbortRecord}}]
               ELSE hist
    /\ UNCHANGED <<walVars, pageVars, ckVars, undoTodo, trunc, damage, codec, daemon>>

\* applyRedo: applies nothing to the page
ApplyRedo(pg, rec) == pg

\* redoRecord: whether the record is replayed
Redoable(rec, dpt) ==
    /\ rec.Type \in {UpdateRecord, InsertRecord, CLRRecord}
    /\ rec.PageID \in DOMAIN dpt
    /\ rec.LSN >= dpt[rec.PageID]

MinOf(S) == CHOOSE x \in S : \A y \in S : x <= y

\* The scan loop of redoPhase: st = [pages, ops]
RECURSIVE RedoScan(_, _, _, _, _)
RedoScan(l, i, minLSN, dpt, st) ==
    IF i > Len(l) THEN st
    ELSE IF l[i].LSN >= minLSN /\ Redoable(l[i], dpt)
         THEN RedoScan(l, i + 1, minLSN, dpt,
                       [pages |-> ApplyRedo(st.pages, l[i]), ops |-> st.ops + 1])
         ELSE RedoScan(l, i + 1, minLSN, dpt, st)

\* Recover, phase 2
RedoPhase ==
    /\ phase = "analysed"
    /\ LET r == IF DOMAIN dirtyPageTable = {}
                THEN [pages |-> pages, ops |-> 0]
                ELSE RedoScan(ReadRecords(log, damage).recs, 1,
                              MinOf({dirtyPageTable[p] : p \in DOMAIN dirtyPageTable}),
                              dirtyPageTable, [pages |-> pages, ops |-> 0])
       IN  /\ pages' = r.pages
           /\ stats' = [stats EXCEPT !.RedoOperations = @ + r.ops]
    /\ phase' = "redone"
    /\ UNCHANGED <<walVars, disk, ckVars, transactionTable, dirtyPageTable, rmScan, undoTodo,
                   hist, trunc, damage, codec, daemon>>

\* undoRecord: restores nothing
UndoRecord(pg, rec) == pg

\* undoInsert: deletes nothing
UndoInsert(pg, rec) == pg

\* writeCLR: writes nothing to the log
WriteCLR(l, clr) == l

RecAt(l, lsn) == {i \in 1..Len(l) : l[i].LSN = lsn}

\* A chain walk that stops after the first record it looks at
UndoWalk_StopsAfterOneRecord(recs, t, currentLSN, st, fuel) ==
    IF currentLSN = 0 \/ RecAt(recs, currentLSN) = {} \/ fuel = 0 THEN st
    ELSE LET rec == recs[MinOf(RecAt(recs, currentLSN))]
         IN  IF rec.TID = t /\ rec.Type \in DataTypes THEN [st EXCEPT !.ops = @ + 1] ELSE st

\* The chain walk of undoTransaction from currentLSN: st = [pages, log, ops]
RECURSIVE UndoWalk(_, _, _, _, _)
UndoWalk(recs, t, currentLSN, st, fuel) ==
    IF currentLSN = 0 \/ RecAt(recs, currentLSN) = {} \/ fuel = 0 THEN st
    ELSE LET rec == recs[MinOf(RecAt(recs, currentLSN))]
             clr == [NewLogRecord(CLRRecord, rec.TID, rec.PageID, 0,
                                  IF rec.Type = InsertRecord THEN 0 ELSE rec.BeforeImage, 0)
                        EXCEPT !.UndoNextLSN = rec.PrevLSN]
             nx  == IF rec.TID = t /\ rec.Type \in {UpdateRecord, DeleteRecord}
                    THEN [pages |-> UndoRecord(st.pages, rec), log |-> WriteCLR(st.log, clr),
                          ops |-> st.ops + 1]
                    ELSE IF rec.TID = t /\ rec.Type = InsertRecord
                    THEN [pages |-> UndoInsert(st.pages, rec), log |-> WriteCLR(st.log, clr),
                          ops |-> st.ops + 1]
                    ELSE st
         IN  UndoWalk(recs, t, rec.PrevLSN, nx, fuel - 1)

\* A chain walk that looks at the same record again and again
WalkLSNs_SameRecordAgain(recs, currentLSN, fuel) ==
    IF currentLSN = 0 \/ RecAt(recs, currentLSN) = {} THEN <<>>
    ELSE [i \in 1..fuel |-> currentLSN]

\* The LSNs of the records the chain walk of undoTransaction looks at, in order, from
\* currentLSN on ("currentLSN = rec.PrevLSN" until 0 or an LSN with no record), cut off
\* after `fuel` records
RECURSIVE WalkLSNs(_, _, _)
WalkLSNs(recs, currentLSN, fuel) ==
    IF currentLSN = 0 \/ RecAt(recs, currentLSN) = {} \/ fuel = 0 THEN <<>>
    ELSE <<currentLSN>> \o WalkLSNs(recs, recs[MinOf(RecAt(recs, currentLSN))].PrevLSN, fuel - 1)

\* The chain walk from currentLSN comes to an end: a walk that looks at more records
\* than the log holds has come back to a record and goes round for ever
WalkEnds(recs, currentLSN) == Len(WalkLSNs(recs, currentLSN, Len(recs) + 1)) <= Len(recs)

\* LogAbortDuringRecovery(tid, lastLSN): an Abort record chained to lastLSN
AbortDuringRecovery(l, lsn, t, lastLSN) ==
    Append(l, [NewLogRecord(AbortRecord, t, 0, 0, 0, lastLSN) EXCEPT !.LSN = lsn])

\* Recover, phase 3: undoPhase collects the transactions still Active
UndoPhase ==
    /\ phase = "redone"
    /\ undoTodo' = ActiveIn(transactionTable)
    /\ phase' = IF ActiveIn(transactionTable) = {} THEN "done" ELSE "undoing"
    /\ hist' = IF ActiveIn(transactionTable) = {} /\ hist.runs = 0
               THEN [hist EXCEPT !.runs = 1, !.tt = transactionTable, !.dpt = dirtyPageTable,
                                 !.pages = pages]
               ELSE IF ActiveIn(transactionTable) = {}
                    THEN [hist EXCEPT !.runs = @ + 1]
                    ELSE hist
    /\ UNCHANGED <<walVars, pageVars, ckVars, transactionTable, dirtyPageTable, stats, rmScan,
                   trunc, damage, codec, daemon>>

\* undoTransaction for one of the collected transactions (map order is arbitrary); after
\* the last one Recover returns.
UndoTransaction(t) ==
    /\ phase = "undoing"
    /\ t \in undoTodo
    /\ WalkEnds(ReadRecords(log, damage).recs, transactionTable[t].LastLSN)
    /\ LET r == UndoWalk(ReadRecords(log, damage).recs, t, transactionTable[t].LastLSN,
                         [pages |-> pages, log |-> log, ops |-> 0], Len(log) + 1)
       IN  /\ pages' = r.pages
           /\ log' = AbortDuringRecovery(r.log, nextLSN, t, transactionTable[t].LastLSN)
           /\ nextLSN' = nextLSN + RecSize
           /\ stats' = [stats EXCEPT !.UndoOperations = @ + r.ops]
           /\ undoTodo' = undoTodo \ {t}
           /\ phase' = IF undoTodo = {t} THEN "done" ELSE "undoing"
           /\ hist' = IF undoTodo = {t} /\ hist.runs = 0
                      THEN [hist EXCEPT !.runs = 1, !.tt = transactionTable,
                                        !.dpt = dirtyPageTable, !.pages = r.pages]
                      ELSE IF undoTodo = {t} THEN [hist EXCEPT !.runs = @ + 1] ELSE hist
    /\ UNCHANGED <<walExists, nextTid, activeTxns, dirtyPages, disk, ckVars, transactionTable,
                   dirtyPageTable, rmScan, trunc, damage, codec, daemon>>

\* undoTransaction on a chain that leads back to one of its own records: the walk does not
\* end and Recover does not return
UndoTransactionHangs(t) ==
    /\ phase = "undoing"
    /\ t \in undoTodo
    /\ ~WalkEnds(ReadRecords(log, damage).recs, transactionTable[t].LastLSN)
    /\ phase' = "hung"
    /\ UNCHANGED <<walVars, pageVars, ckVars, transactionTable, dirtyPageTable, stats, rmScan,
                   undoTodo, hist, trunc, damage, codec, daemon>>

\* ResetStats between two Recover calls
ResetStats ==
    /\ phase = "done"
    /\ stats # ZeroStats
    /\ stats' = ZeroStats
    /\ UNCHANGED <<walVars, pageVars, phase, ckVars, transactionTable, dirtyPageTable, rmScan,
                   undoTodo, hist, trunc, damage, codec, daemon>>

\* No truncation in progress, no <wal>.truncate.tmp and no <wal>.old file
NoTrunc == [pc |-> "idle", count |-> 0, lsn |-> 0, retain |-> 0, safe |-> 0, pre |-> <<>>,
            tmpExists |-> FALSE, tmp |-> <<>>, oldExists |-> FALSE, old |-> <<>>]

\* What a restart after a crash does to the program: memory is lost, files stay. NewWAL
\* reopens the log, NewRecoveryManager gives empty tables.
RestartState ==
    /\ phase # "crashed"
    /\ phase' = "crashed"
    /\ nextLSN' = Len(log) * RecSize
    /\ activeTxns' = EmptyMap
    /\ dirtyPages' = EmptyMap
    /\ pages' = disk
    /\ ckPc' = [p \in Procs |-> "idle"]
    /\ ckBegin' = [p \in Procs |-> 0]
    /\ ckData' = [p \in Procs |-> NoData]
    /\ ckFd' = [p \in Procs |-> "none"]
    /\ ckRet' = [p \in Procs |-> NoRet]
    /\ ckPublished' = [p \in Procs |-> FALSE]
    /\ transactionTable' = EmptyMap
    /\ dirtyPageTable' = EmptyMap
    /\ stats' = ZeroStats
    /\ rmScan' = NoScan
    /\ undoTodo' = {}
    /\ trunc' = [trunc EXCEPT !.pc = "idle"]
    /\ UNCHANGED <<log, walExists, nextTid, disk, sidecarFile, tmpFile, codec, daemon>>

\* A restart after a crash
Restart ==
    /\ RestartState
    /\ hist' = NoHist

\* A crash that leaves every record of the WAL file as readable as it was
Crash == Restart /\ UNCHANGED damage

\* A crash while the last record of the log was being written: the record is torn
CrashTorn ==
    /\ phase = "run" /\ damage.at = 0 /\ Len(log) >= 1
    /\ Restart
    /\ damage' = [at |-> Len(log), tail |-> TRUE]

\* A crash after which record i, with complete records after it, fails its checksum
CrashCorrupt(i) ==
    /\ phase = "run" /\ damage.at = 0 /\ i \in 1..(Len(log) - 1)
    /\ Restart
    /\ damage' = [at |-> i, tail |-> FALSE]

\* analysisPhase returning an error: wal.Force fails (before the tables are reset), or
\* NewLogReader fails (after the tables were reset and seeded from the checkpoint)
AnalysisFails(at) ==
    /\ phase \in {"crashed", "done"}
    /\ walExists /\ trunc.pc = "idle"
    /\ hist.runs < MaxRuns
    /\ LET r == AnalysisResult(<<>>, GetLastCheckpoint(sidecarFile))
       IN  IF at = "force"
           THEN /\ UNCHANGED <<transactionTable, dirtyPageTable>>
                /\ rmScan' = [rmScan EXCEPT !.err = "analysis"]
           ELSE /\ transactionTable' = r.tt
                /\ dirtyPageTable' = r.dpt
                /\ rmScan' = [startLSN |-> r.startLSN, seeded |-> r.seeded, ckRes |-> r.ckRes,
                              sidecar |-> sidecarFile, err |-> "analysis"]
    /\ phase' = PhaseAfter(TRUE, "analysed")
    /\ UNCHANGED <<walVars, pageVars, ckVars, stats, undoTodo, hist, trunc, damage, codec, daemon>>

\* redoPhase returning an error: NewLogReader fails
RedoFails ==
    /\ phase = "analysed"
    /\ DOMAIN dirtyPageTable # {}
    /\ rmScan' = [rmScan EXCEPT !.err = "redo"]
    /\ phase' = PhaseAfter(TRUE, "redone")
    /\ UNCHANGED <<walVars, pageVars, ckVars, transactionTable, dirtyPageTable, stats, undoTodo,
                   hist, trunc, damage, codec, daemon>>

\* undoTransaction returning an error: NewLogReader fails (nothing undone yet), or
\* LogAbortDuringRecovery fails (after the chain walk); undoPhase returns it at once
UndoFails(t, at) ==
    /\ phase = "undoing"
    /\ t \in undoTodo
    /\ LET r == UndoWalk(ReadRecords(log, damage).recs, t, transactionTable[t].LastLSN,
                         [pages |-> pages, log |-> log, ops |-> 0], Len(log) + 1)
       IN  IF at = "reader"
           THEN UNCHANGED <<pages, stats>>
           ELSE /\ pages' = r.pages
                /\ stats' = [stats EXCEPT !.UndoOperations = @ + r.ops]
    /\ rmScan' = [rmScan EXCEPT !.err = "undo"]
    /\ undoTodo' = undoTodo \ {t}
    /\ phase' = PhaseAfter(TRUE, IF undoTodo = {t} THEN "done" ELSE "undoing")
    /\ UNCHANGED <<walVars, disk, ckVars, transactionTable, dirtyPageTable, hist, trunc, damage, codec, daemon>>

\* The LSNs of the records that the chain walk of undoTransaction undoes, from currentLSN
\* on: the Update, Insert and Delete records of t met while following PrevLSN
RECURSIVE UndoChain(_, _, _, _)
UndoChain(recs, t, currentLSN, fuel) ==
    IF currentLSN = 0 \/ RecAt(recs, currentLSN) = {} \/ fuel = 0 THEN {}
    ELSE LET rec == recs[MinOf(RecAt(recs, currentLSN))]
         IN  (IF rec.TID = t /\ rec.Type \in DataTypes THEN {rec.LSN} ELSE {})
                \cup UndoChain(recs, t, rec.PrevLSN, fuel - 1)

\* A crash inside undoTransaction(t), after the walk has undone the records down to upTo
\* and before LogAbortDuringRecovery: undoRecord, undoInsert and writeCLR have written
\* nothing, so the files are as they were when Undo began. The history keeps which
\* records the interrupted walk had undone.
CrashInUndo(t, upTo) ==
    /\ phase = "undoing"
    /\ t \in undoTodo
    /\ LET chain == UndoChain(ReadRecords(log, damage).recs, t, transactionTable[t].LastLSN,
                               Len(log) + 1)
       IN  /\ upTo \in chain
           /\ hist' = [NoHist EXCEPT !.undoneBeforeCrash =
                           hist.undoneBeforeCrash \cup {l \in chain : l >= upTo}]
    /\ RestartState
    /\ UNCHANGED damage

----------------------------------------------------------------------------
\* Log truncation

safetyMargin == 1024

MaxTruncations == 1   \* truncations performed in one run of the model

\* calculateTruncationPoint
CalculateTruncationPoint(cp) ==
    LET lsns   == {cp.LSN} \cup {cp.ActiveTxns[t].FirstLSN : t \in DOMAIN cp.ActiveTxns}
                           \cup {cp.DirtyPages[p] : p \in DOMAIN cp.DirtyPages}
        minLSN == MinOf(lsns)
    IN  IF minLSN > safetyMargin THEN minLSN - safetyMargin ELSE 0

\* TruncateWAL up to the call of performTruncation: the LSN to truncate at, 0 for none
TruncateLSN(cp, config, currentSize) ==
    LET point == CalculateTruncationPoint(cp)
        truncateLSN == IF point < config.MinRetainedSize THEN config.MinRetainedSize ELSE point
    IN  IF ~config.Enabled THEN 0
        ELSE IF currentSize < config.MinWALSizeForTruncation THEN 0
        ELSE IF point = 0 THEN 0
        ELSE IF truncateLSN < currentSize \div 10 THEN 0
        ELSE truncateLSN

\* copyWALRecords: the records with LSN >= startLSN, written back to back from offset 0
CopyWALRecords(l, startLSN) ==
    LET kept == SelectSeq(l, LAMBDA r : r.LSN >= startLSN)
    IN  [i \in 1..Len(kept) |-> [kept[i] EXCEPT !.LSN = (i - 1) * RecSize]]

TruncateConfigs ==
    [Enabled : BOOLEAN, MinWALSizeForTruncation : {0, 4 * RecSize},
     MinRetainedSize : {0, 3 * RecSize}]

\* TruncateWAL with the checkpoint GetLastCheckpoint returns, through performTruncation
\* steps 1 to 3 (writer flushed, temporary file created, records copied)
TruncateStart(config) ==
    /\ phase = "run" /\ walExists /\ trunc.pc = "idle"
    /\ trunc.count < MaxTruncations
    /\ GetLastCheckpoint(sidecarFile).res = "ok"
    /\ LET cp == GetLastCheckpoint(sidecarFile).cp
           truncateLSN == TruncateLSN(cp, config, Len(log) * RecSize)
       IN  /\ truncateLSN > 0
           /\ trunc' = [trunc EXCEPT !.pc = "copied", !.count = @ + 1, !.lsn = truncateLSN,
                                     !.retain = config.MinRetainedSize,
                                     !.safe = CalculateTruncationPoint(cp), !.pre = log,
                                     !.tmpExists = TRUE,
                                     !.tmp = CopyWALRecords(log, truncateLSN)]
    /\ UNCHANGED <<walVars, pageVars, phase, ckVars, rmVars, damage, codec, daemon>>

\* performTruncation step 5, first rename: the old WAL becomes <wal>.old
TruncBackup ==
    /\ phase = "run" /\ trunc.pc = "copied"
    /\ walExists' = FALSE
    /\ trunc' = [trunc EXCEPT !.pc = "backedup", !.oldExists = TRUE, !.old = log]
    /\ UNCHANGED <<log, nextLSN, nextTid, activeTxns, dirtyPages, pageVars, phase, ckVars,
                   rmVars, damage, codec, daemon>>

\* performTruncation step 5, second rename: the temporary file becomes the WAL
TruncActivate ==
    /\ phase = "run" /\ trunc.pc = "backedup"
    /\ walExists' = TRUE
    /\ log' = trunc.tmp
    /\ trunc' = [trunc EXCEPT !.pc = "activated", !.tmpExists = FALSE, !.tmp = <<>>]
    /\ UNCHANGED <<nextLSN, nextTid, activeTxns, dirtyPages, pageVars, phase, ckVars, rmVars,
                   damage, codec, daemon>>

\* performTruncation steps 6 to 9: reopen, new writer at copiedBytes, dirty page LSNs
\* shifted, backup removed
TruncFinish ==
    /\ phase = "run" /\ trunc.pc = "activated"
    /\ nextLSN' = Len(log) * RecSize
    /\ dirtyPages' = [p \in {q \in DOMAIN dirtyPages : dirtyPages[q] >= trunc.lsn} |->
                        dirtyPages[p] - trunc.lsn]
    /\ trunc' = [trunc EXCEPT !.pc = "idle", !.oldExists = FALSE, !.old = <<>>]
    /\ UNCHANGED <<log, walExists, nextTid, activeTxns, pageVars, phase, ckVars, rmVars,
                   damage, codec, daemon>>

----------------------------------------------------------------------------
\* ---------------------------------------------------------------------------------------
\* The checkpoint record codec on its own: SerializeCheckpoint, then DeserializeCheckpoint
\* of the bytes it returned
\* ---------------------------------------------------------------------------------------

MaxCodecLSN == 1      \* LSN fields of a serialized record: 0..MaxCodecLSN records into the log

CodecLSNs == {i * RecSize : i \in 0..MaxCodecLSN}

\* The checkpoint records given to the codec
CodecRecords ==
    {[LSN |-> l, ActiveTxns |-> a, DirtyPages |-> d] :
        l \in CodecLSNs,
        a \in UNION {[S -> [FirstLSN : CodecLSNs, LastLSN : CodecLSNs, UndoNextLSN : CodecLSNs]] :
                        S \in SUBSET Tids},
        d \in UNION {[S -> CodecLSNs] : S \in SUBSET PageIds}}

NoCodec == [pc |-> "idle", cp |-> NewCheckpointRecord(EmptyMap, EmptyMap), data |-> NoData,
            res |-> "none", out |-> NewCheckpointRecord(EmptyMap, EmptyMap)]

\* DeserializeCheckpoint with its error returns: n is the length of the byte slice
DeserializeBytes(data, n) ==
    IF n < 4 \/ n < data.Size
    THEN [res |-> "err", cp |-> NewCheckpointRecord(EmptyMap, EmptyMap)]
    ELSE [res |-> "ok", cp |-> DeserializeCheckpoint(data)]

\* data, err := SerializeCheckpoint(cp)
CodecSerialize ==
    /\ codec.pc = "new"
    /\ codec' = [codec EXCEPT !.pc = "serialized", !.data = SerializeCheckpoint(codec.cp)]
    /\ UNCHANGED <<walVars, pageVars, phase, ckVars, rmVars, trunc, damage, daemon>>

\* cp2, err := DeserializeCheckpoint(data), data being the whole slice that was returned
CodecDeserialize ==
    /\ codec.pc = "serialized"
    /\ LET r == DeserializeBytes(codec.data, codec.data.Size)
       IN  codec' = [codec EXCEPT !.pc = "deserialized", !.res = r.res, !.out = r.cp]
    /\ UNCHANGED <<walVars, pageVars, phase, ckVars, rmVars, trunc, damage, daemon>>

\* ---------------------------------------------------------------------------------------
\* Checkpoint daemon. The clock counts units of ten seconds.
\* ---------------------------------------------------------------------------------------

MaxTime == 7                  \* the clock runs from 0 to MaxTime

CheckPeriod == 3              \* checkTicker: time.NewTicker(30 * time.Second)

ZeroDaemonStats == [TotalCheckpoints |-> 0, TimeBasedTriggers |-> 0, SizeBasedTriggers |-> 0,
                    FailedCheckpoints |-> 0]

\* CheckpointConfig
CheckpointConfig(enabled, interval, maxWALSize, maxTransactions) ==
    [Enabled |-> enabled, Interval |-> interval, MaxWALSize |-> maxWALSize,
     MaxTransactions |-> maxTransactions]

\* The configurations the daemon is run with: Interval of 30 seconds; size trigger off,
\* at one record, and beyond what the log can hold; MaxTransactions of one commit
CheckpointConfigs ==
    {CheckpointConfig(e, CheckPeriod, m, 1) :
        e \in BOOLEAN, m \in {0, RecSize, (MaxLog + 1) * RecSize}}

\* NewCheckpointDaemon(wal, config) at clock time `now`: lastCheckpoint is time.Now()
NewCheckpointDaemon(config, now) ==
    [pc |-> "new", cfg |-> config, running |-> FALSE, now |-> now, started |-> 0,
     tick |-> FALSE, check |-> FALSE, stopClosed |-> FALSE, stopPc |-> "none",
     stopSaw |-> [pc |-> "none", done |-> 0], reason |-> "none", startTime |-> 0, lastCheckpoint |-> now,
     sidecarMod |-> 0, stats |-> ZeroDaemonStats]

\* No daemon has been created
NoDaemon == [NewCheckpointDaemon(CheckpointConfig(FALSE, CheckPeriod, 0, 1), 0) EXCEPT !.pc = "none"]

\* Start: nothing when disabled; else running goes from false to true and run() is started,
\* which creates its two tickers
DaemonStart ==
    /\ daemon.pc = "new"
    /\ daemon' = IF ~daemon.cfg.Enabled THEN [daemon EXCEPT !.pc = "disabled"]
                 ELSE [daemon EXCEPT !.pc = "select", !.running = TRUE, !.started = daemon.now]
    /\ UNCHANGED <<walVars, pageVars, phase, ckVars, rmVars, trunc, damage, codec>>

\* A ticker of period `period` created at `started` sends at time `now`
TickerFires(started, period, now) == now > started /\ (now - started) % period = 0

\* Ten seconds pass. A ticker that fires puts the time in its channel, which holds one
\* value; the tickers of a loop that has exited are stopped.
Advance ==
    /\ daemon.pc \in {"new", "select", "ckpt", "exited"}
    /\ daemon.now < MaxTime
    /\ LET now == daemon.now + 1
           on  == daemon.pc \in {"select", "ckpt"}
       IN  daemon' = [daemon EXCEPT
                         !.now = now,
                         !.tick = @ \/ (on /\ TickerFires(daemon.started, daemon.cfg.Interval, now)),
                         !.check = @ \/ (on /\ TickerFires(daemon.started, CheckPeriod, now))]
    /\ UNCHANGED <<walVars, pageVars, phase, ckVars, rmVars, trunc, damage, codec>>

\* shouldCheckpointByTime: time.Since(lastCheckpoint) >= Interval
ShouldCheckpointByTime(d) == d.now - d.lastCheckpoint >= d.cfg.Interval

\* WAL.ShouldCheckpoint(maxWALSize, maxInterval): the file is large enough, or there is no
\* sidecar, or the sidecar is at least maxInterval old
ShouldCheckpoint(size, maxWALSize, hasSidecar, sinceMod, maxInterval) ==
    \/ size >= maxWALSize
    \/ ~hasSidecar
    \/ sinceMod >= maxInterval

\* shouldCheckpointBySize: false when MaxWALSize <= 0, else ShouldCheckpoint(MaxWALSize, 0)
ShouldCheckpointBySize(d) ==
    /\ d.cfg.MaxWALSize > 0
    /\ ShouldCheckpoint(Len(log) * RecSize, d.cfg.MaxWALSize, sidecarFile.exists,
                        d.now - d.sidecarMod, 0)

\* triggerCheckpoint up to the call of WriteCheckpoint: startTime := time.Now()
TriggerCheckpoint(d, reason) == [d EXCEPT !.pc = "ckpt", !.reason = reason, !.startTime = d.now]

\* run, case <-ticker.C
DaemonOnTick ==
    /\ daemon.pc = "select" /\ daemon.tick
    /\ Len(log) + 2 <= MaxLog
    /\ daemon' = IF ShouldCheckpointByTime(daemon)
                 THEN TriggerCheckpoint([daemon EXCEPT !.tick = FALSE], "time")
                 ELSE [daemon EXCEPT !.tick = FALSE]
    /\ UNCHANGED <<walVars, pageVars, phase, ckVars, rmVars, trunc, damage, codec>>

\* run, case <-checkTicker.C
DaemonOnCheck ==
    /\ daemon.pc = "select" /\ daemon.check
    /\ Len(log) + 2 <= MaxLog
    /\ daemon' = IF ShouldCheckpointBySize(daemon)
                 THEN TriggerCheckpoint([daemon EXCEPT !.check = FALSE], "size")
                 ELSE [daemon EXCEPT !.check = FALSE]
    /\ UNCHANGED <<walVars, pageVars, phase, ckVars, rmVars, trunc, damage, codec>>

\* The trigger counter of run, incremented after triggerCheckpoint has returned
CountTrigger(st, reason) ==
    IF reason = "time" THEN [st EXCEPT !.TimeBasedTriggers = @ + 1]
    ELSE [st EXCEPT !.SizeBasedTriggers = @ + 1]

\* triggerCheckpoint from the return of a successful WriteCheckpoint (CheckpointBegin,
\* snapshot, sidecar, CheckpointEnd): the statistics and lastCheckpoint take startTime
DaemonCheckpointDone ==
    /\ daemon.pc = "ckpt"
    /\ phase = "run" /\ walExists /\ Len(log) + 2 <= MaxLog
    /\ LET data == SerializeCheckpoint(SnapshotRecord(activeTxns, dirtyPages, nextLSN))
           b    == [NewLogRecord(CheckpointBegin, 0, 0, 0, 0, 0) EXCEPT !.LSN = nextLSN]
           e    == [NewLogRecord(CheckpointEnd, 0, 0, 0, 0, nextLSN) EXCEPT
                       !.LSN = nextLSN + RecSize]
       IN  /\ log' = log \o <<b, e>>
           /\ nextLSN' = nextLSN + 2 * RecSize
           /\ sidecarFile' = WriteAt0(EmptyFile, data)
           /\ ckBegin' = [ckBegin EXCEPT !["daemon"] = nextLSN]
           /\ ckData' = [ckData EXCEPT !["daemon"] = data]
           /\ ckRet' = [ckRet EXCEPT !["daemon"] =
                           [st |-> "ok", lsn |-> nextLSN + RecSize, begin |-> nextLSN]]
    /\ daemon' = [daemon EXCEPT
                     !.pc = "select",
                     !.lastCheckpoint = daemon.startTime,
                     !.sidecarMod = daemon.now,
                     !.stats = CountTrigger([@ EXCEPT !.TotalCheckpoints = @ + 1], daemon.reason)]
    /\ UNCHANGED <<walExists, nextTid, activeTxns, dirtyPages, pageVars, phase, ckPc, ckFd,
                   ckPublished, tmpFile, rmVars, trunc, damage, codec>>

\* triggerCheckpoint from the return of a failed WriteCheckpoint: only FailedCheckpoints
\* and the trigger counter change
DaemonCheckpointFailed ==
    /\ daemon.pc = "ckpt"
    /\ daemon' = [daemon EXCEPT
                     !.pc = "select",
                     !.stats = CountTrigger([@ EXCEPT !.FailedCheckpoints = @ + 1], daemon.reason)]
    /\ UNCHANGED <<walVars, pageVars, phase, ckVars, rmVars, trunc, damage, codec>>

\* run, case <-cd.stopChan: return, and the deferred wg.Done()
DaemonOnStop ==
    /\ daemon.pc = "select" /\ daemon.stopClosed
    /\ daemon' = [daemon EXCEPT !.pc = "exited"]
    /\ UNCHANGED <<walVars, pageVars, phase, ckVars, rmVars, trunc, damage, codec>>

\* Stop on a daemon that is running: close(cd.stopChan), then wg.Wait(). stopSaw keeps
\* where the loop was, and how many checkpoints it had completed, when Stop was called.
StopCall ==
    /\ daemon.running /\ daemon.stopPc = "none"
    /\ daemon' = [daemon EXCEPT
                     !.stopClosed = TRUE, !.stopPc = "waiting",
                     !.stopSaw = [pc |-> daemon.pc,
                                  done |-> daemon.stats.TotalCheckpoints
                                             + daemon.stats.FailedCheckpoints]]
    /\ UNCHANGED <<walVars, pageVars, phase, ckVars, rmVars, trunc, damage, codec>>

\* A Stop that does not wait for the loop
WaitDone_NoWait(d) == TRUE

\* wg.Wait() returns when run has called wg.Done()
WaitDone(d) == d.pc = "exited"

\* Stop from the return of wg.Wait(): running.Store(false), return nil
StopReturn ==
    /\ daemon.stopPc = "waiting"
    /\ WaitDone(daemon)
    /\ daemon' = [daemon EXCEPT !.running = FALSE, !.stopPc = "returned"]
    /\ UNCHANGED <<walVars, pageVars, phase, ckVars, rmVars, trunc, damage, codec>>

\* Start on a daemon whose Stop has returned: running is false again, so the
\* CompareAndSwap succeeds, and a new run() starts with new tickers. stopChan is the
\* channel NewCheckpointDaemon made and Stop closed: it stays closed.
StartAgain ==
    /\ daemon.pc = "exited" /\ ~daemon.running /\ daemon.stopPc = "returned"
    /\ daemon' = [daemon EXCEPT !.pc = "select", !.running = TRUE, !.started = daemon.now,
                                !.tick = FALSE, !.check = FALSE, !.stopPc = "restarted"]
    /\ UNCHANGED <<walVars, pageVars, phase, ckVars, rmVars, trunc, damage, codec>>

\* Stop on a daemon that was started again: running is true, and close(cd.stopChan) on
\* the channel that is already closed panics
StopAgain ==
    /\ daemon.running /\ daemon.stopPc = "restarted"
    /\ daemon' = [daemon EXCEPT !.pc = "panicked", !.stopPc = "panicked"]
    /\ UNCHANGED <<walVars, pageVars, phase, ckVars, rmVars, trunc, damage, codec>>

Init ==
    /\ log = <<>>
    /\ walExists = TRUE
    /\ nextLSN = 0
    /\ nextTid = 1
    /\ activeTxns = EmptyMap
    /\ dirtyPages = EmptyMap
    /\ pages = [p \in PageIds |-> 0]
    /\ disk = [p \in PageIds |-> 0]
    /\ phase = "run"
    /\ ckPc = [p \in Procs |-> "idle"]
    /\ ckBegin = [p \in Procs |-> 0]
    /\ ckData = [p \in Procs |-> NoData]
    /\ ckFd = [p \in Procs |-> "none"]
    /\ ckRet = [p \in Procs |-> NoRet]
    /\ ckPublished = [p \in Procs |-> FALSE]
    /\ sidecarFile = NoFile
    /\ tmpFile = NoFile
    /\ transactionTable = EmptyMap
    /\ dirtyPageTable = EmptyMap
    /\ stats = ZeroStats
    /\ rmScan = NoScan
    /\ undoTodo = {}
    /\ hist = NoHist
    /\ trunc = NoTrunc
    /\ damage = NoDamage
    /\ codec = NoCodec
    /\ daemon = NoDaemon

\* The engine with one checkpointer (the daemon), crashes and recovery
Next ==
    \/ LogBegin
    \/ \E t \in Tids, p \in PageIds, v \in Vals : LogData(t, UpdateRecord, p, v)
    \/ \E t \in Tids : LogCommit(t)
    \/ \E t \in Tids : LogAbort(t)
    \/ \E p \in PageIds : FlushPage(p)
    \/ CkBeginStep("daemon")
    \/ CkPublish("daemon")
    \/ CkEndStep("daemon")
    \/ Crash
    \/ AnalysisPhase
    \/ RedoPhase
    \/ UndoPhase
    \/ \E t \in Tids : UndoTransaction(t)
    \/ ResetStats

Spec == Init /\ [][Next]_vars

\* Two concurrent WriteCheckpoint callers (daemon trigger and manual trigger), step by step
NextCkpt ==
    \/ LogBegin
    \/ \E t \in Tids, p \in PageIds, v \in Vals : LogData(t, UpdateRecord, p, v)
    \/ \E t \in Tids : LogCommit(t)
    \/ \E p \in Procs : CkBeginStep(p)
    \/ \E p \in Procs : CkSnapshot(p)
    \/ \E p \in Procs : CkOpenTmp(p)
    \/ \E p \in Procs : CkWriteTmp(p)
    \/ \E p \in Procs : CkRename(p)
    \/ \E p \in Procs : CkEndStep(p)
    \/ Crash

SpecCkpt == Init /\ [][NextCkpt]_vars

\* The engine with checkpoints followed by log truncation, and crashes
NextTrunc ==
    \/ LogBegin
    \/ \E t \in Tids, p \in PageIds, v \in Vals : LogData(t, UpdateRecord, p, v)
    \/ \E t \in Tids : LogCommit(t)
    \/ CkBeginStep("daemon")
    \/ CkPublish("daemon")
    \/ CkEndStep("daemon")
    \/ \E config \in TruncateConfigs : TruncateStart(config)
    \/ TruncBackup
    \/ TruncActivate
    \/ TruncFinish
    \/ Crash

SpecTrunc == Init /\ [][NextTrunc]_vars

\* One crash, then recovery over a WAL file with a torn or corrupt record, and with I/O
\* errors in the recovery phases
NextFault ==
    \/ LogBegin
    \/ \E t \in Tids, p \in PageIds, v \in Vals : LogData(t, UpdateRecord, p, v)
    \/ \E t \in Tids : LogCommit(t)
    \/ \E p \in PageIds : FlushPage(p)
    \/ phase = "run" /\ Crash
    \/ CrashTorn
    \/ \E i \in 1..MaxLog : CrashCorrupt(i)
    \/ AnalysisPhase
    \/ RedoPhase
    \/ UndoPhase
    \/ \E t \in Tids : UndoTransaction(t)
    \/ \E at \in {"force", "reader"} : AnalysisFails(at)
    \/ RedoFails
    \/ \E t \in Tids, at \in {"reader", "abort"} : UndoFails(t, at)

SpecFault == Init /\ [][NextFault]_vars

\* Transactions writing Update, Insert and Delete records, one crash, then recovery
NextData ==
    \/ LogBegin
    \/ \E t \in Tids, type \in DataTypes, p \in PageIds, v \in Vals : LogData(t, type, p, v)
    \/ \E t \in Tids : LogCommit(t)
    \/ \E t \in Tids : LogAbort(t)
    \/ phase = "run" /\ Crash
    \/ AnalysisPhase
    \/ RedoPhase
    \/ UndoPhase
    \/ \E t \in Tids : UndoTransaction(t)

SpecData == Init /\ [][NextData]_vars

\* The codec applied to every checkpoint record of CodecRecords
InitCodec ==
    /\ log = <<>> /\ walExists = TRUE /\ nextLSN = 0 /\ nextTid = 1
    /\ activeTxns = EmptyMap /\ dirtyPages = EmptyMap
    /\ pages = [p \in PageIds |-> 0] /\ disk = [p \in PageIds |-> 0]
    /\ phase = "run"
    /\ ckPc = [p \in Procs |-> "idle"] /\ ckBegin = [p \in Procs |-> 0]
    /\ ckData = [p \in Procs |-> NoData] /\ ckFd = [p \in Procs |-> "none"]
    /\ ckRet = [p \in Procs |-> NoRet]
    /\ ckPublished = [p \in Procs |-> FALSE]
    /\ sidecarFile = NoFile /\ tmpFile = NoFile
    /\ transactionTable = EmptyMap /\ dirtyPageTable = EmptyMap
    /\ stats = ZeroStats /\ rmScan = NoScan /\ undoTodo = {} /\ hist = NoHist
    /\ trunc = NoTrunc /\ damage = NoDamage /\ daemon = NoDaemon
    /\ \E cp \in CodecRecords : codec = [NoCodec EXCEPT !.pc = "new", !.cp = cp]

NextCodec ==
    \/ CodecSerialize
    \/ CodecDeserialize

SpecCodec == InitCodec /\ [][NextCodec]_vars

\* A checkpoint daemon over a WAL that holds the Begin record of one running transaction
InitDaemon ==
    /\ log = <<[NewLogRecord(BeginRecord, 1, 0, 0, 0, 0) EXCEPT !.LSN = 0]>>
    /\ walExists = TRUE /\ nextLSN = RecSize /\ nextTid = 2
    /\ activeTxns = MapPut(EmptyMap, 1, [FirstLSN |-> 0, LastLSN |-> 0, UndoNextLSN |-> 0])
    /\ dirtyPages = EmptyMap
    /\ pages = [p \in PageIds |-> 0] /\ disk = [p \in PageIds |-> 0]
    /\ phase = "run"
    /\ ckPc = [p \in Procs |-> "idle"] /\ ckBegin = [p \in Procs |-> 0]
    /\ ckData = [p \in Procs |-> NoData] /\ ckFd = [p \in Procs |-> "none"]
    /\ ckRet = [p \in Procs |-> NoRet]
    /\ ckPublished = [p \in Procs |-> FALSE]
    /\ sidecarFile = NoFile /\ tmpFile = NoFile
    /\ transactionTable = EmptyMap /\ dirtyPageTable = EmptyMap
    /\ stats = ZeroStats /\ rmScan = NoScan /\ undoTodo = {} /\ hist = NoHist
    /\ trunc = NoTrunc /\ damage = NoDamage /\ codec = NoCodec
    /\ \E c \in CheckpointConfigs : daemon = NewCheckpointDaemon(c, 0)

\* The steps of the daemon's goroutine
DaemonStep ==
    \/ DaemonOnTick
    \/ DaemonOnCheck
    \/ DaemonCheckpointDone
    \/ DaemonCheckpointFailed
    \/ DaemonOnStop

NextDaemon ==
    \/ \E t \in Tids : LogCommit(t)
    \/ DaemonStart
    \/ Advance
    \/ DaemonStep
    \/ StopCall
    \/ StopReturn

SpecDaemon == InitDaemon /\ [][NextDaemon]_vars

\* The same, the daemon's goroutine being scheduled whenever it can take a step; nothing
\* makes time pass or transactions commit
SpecDaemonFair == SpecDaemon /\ WF_vars(DaemonStep)

\* Transactions, one crash while they run, recovery, and crashes inside the Undo phase
\* followed by a restart of recovery
NextUndoCrash ==
    \/ LogBegin
    \/ \E t \in Tids, type \in DataTypes, p \in PageIds, v \in Vals : LogData(t, type, p, v)
    \/ \E t \in Tids : LogCommit(t)
    \/ phase = "run" /\ Crash
    \/ AnalysisPhase
    \/ RedoPhase
    \/ UndoPhase
    \/ \E t \in Tids : UndoTransaction(t)
    \/ \E t \in Tids, i \in 1..MaxLog : CrashInUndo(t, (i - 1) * RecSize)

SpecUndoCrash == Init /\ [][NextUndoCrash]_vars

\* The daemon with Start and Stop called again after a Stop has returned
NextDaemonRestart ==
    \/ NextDaemon
    \/ StartAgain
    \/ StopAgain

SpecDaemonRestart == InitDaemon /\ [][NextDaemonRestart]_vars

\* The engine with checkpoints and log truncation, crashes, and recovery
NextTruncRecover ==
    \/ NextTrunc
    \/ AnalysisPhase
    \/ RedoPhase
    \/ UndoPhase
    \/ \E t \in Tids : UndoTransaction(t)
    \/ \E t \in Tids : UndoTransactionHangs(t)

SpecTruncRecover == Init /\ [][NextTruncRecover]_vars

MaxLogTruncated == 6  \* records the log may hold where a checkpoint is followed by truncation

\* Transactions, then a checkpoint followed by the truncation of the log; the engine may
\* crash on the rewritten file and recover
NextTruncAfterCheckpoint ==
    \/ LogBeginWithin(MaxLogTruncated)
    \/ \E t \in Tids, p \in PageIds, v \in Vals :
          LogDataWithin(MaxLogTruncated, t, UpdateRecord, p, v)
    \/ \E t \in Tids : LogCommitWithin(MaxLogTruncated, t)
    \/ CkBeginStepWithin(MaxLogTruncated, "daemon")
    \/ CkPublish("daemon")
    \/ CkEndStepWithin(MaxLogTruncated, "daemon")
    \/ \E config \in TruncateConfigs : TruncateStart(config)
    \/ TruncBackup
    \/ TruncActivate
    \/ TruncFinish
    \/ trunc.count > 0 /\ log = CopyWALRecords(trunc.pre, trunc.lsn) /\ Crash
    \/ AnalysisPhase
    \/ RedoPhase
    \/ UndoPhase
    \/ \E t \in Tids : UndoTransaction(t)
    \/ \E t \in Tids : UndoTransactionHangs(t)

SpecTruncAfterCheckpoint == Init /\ [][NextTruncAfterCheckpoint]_vars

----------------------------------------------------------------------------
\* Properties of Recover

\* Transactions with a Commit record in the log
CommittedIn(l) == {r.TID : r \in {x \in RecordsOf(l) : x.Type = CommitRecord}}

\* Positions of the writes of committed transactions to page p
CommittedWrites(l, p) ==
    {i \in 1..Len(l) : l[i].Type \in DataTypes /\ l[i].PageID = p /\ l[i].TID \in CommittedIn(l)}

MaxOf(S) == CHOOSE x \in S : \A y \in S : y <= x

\* Pages transaction t wrote
WrittenBy(l, t) == {r.PageID : r \in {x \in RecordsOf(l) : x.TID = t /\ x.Type \in DataTypes}}

\* C1: once Recover has returned, every page written by a committed transaction holds the
\* after-image of the last committed write to it.
C1_CommittedWritesVisible ==
    phase = "done" =>
        \A p \in PageIds :
            CommittedWrites(log, p) # {} =>
                pages[p] = log[MaxOf(CommittedWrites(log, p))].AfterImage

\* C2: once Recover has returned, every page written by a loser (a transaction with neither
\* Commit nor Abort in the log at the crash) holds the before-image of the loser's earliest
\* write to it.
C2_LoserWritesUndone ==
    phase = "done" =>
        \A t \in hist.losers : \A p \in WrittenBy(log, t) :
            pages[p] = FirstBefore(log, t, p)

StatusOf(tt) == [t \in DOMAIN tt |-> tt[t].Status]

\* C3: a second Recover on the same manager and log leaves the transaction table (entries
\* and statuses), the dirty page table and the pages exactly as the first call left them.
C3_RecoverIdempotent ==
    (phase = "done" /\ hist.runs = 2) =>
        /\ StatusOf(transactionTable) = StatusOf(hist.tt)
        /\ dirtyPageTable = hist.dpt
        /\ pages = hist.pages

\* The log holds the CheckpointEnd paired with the snapshot in file f
PairedEnd(l, f) ==
    \E r \in RecordsOf(l) : r.Type = CheckpointEnd /\ r.PrevLSN = f.data.LSN

\* What GetLastCheckpoint returns when there is no sidecar
NoCheckpoint == GetLastCheckpoint(NoFile)

\* C4: analysis seeded from the checkpoint sidecar yields the same transaction table
\* (transactions, statuses, first/last/undo-next LSNs) and dirty page table as analysis of
\* the same log from LSN 0 with no sidecar.
C4_SeededAnalysisMatchesFullScan ==
    (phase = "analysed" /\ rmScan.seeded /\ PairedEnd(log, rmScan.sidecar)) =>
        /\ transactionTable = AnalysisResult(log, NoCheckpoint).tt
        /\ dirtyPageTable = AnalysisResult(log, NoCheckpoint).dpt

\* C8: when the sidecar exists but the log holds no CheckpointEnd paired with it, Analysis
\* ignores the sidecar: it seeds nothing from it and scans from LSN 0.
C8_UnpairedSidecarIgnored ==
    (phase = "analysed" /\ rmScan.sidecar.exists /\ ~PairedEnd(log, rmScan.sidecar)) =>
        /\ ~rmScan.seeded
        /\ rmScan.startLSN = 0
        /\ transactionTable = AnalysisResult(log, NoCheckpoint).tt
        /\ dirtyPageTable = AnalysisResult(log, NoCheckpoint).dpt

\* The log without its CheckpointBegin and CheckpointEnd records
WithoutCheckpointRecords(l) ==
    SelectSeq(l, LAMBDA r : r.Type \notin {CheckpointBegin, CheckpointEnd})

\* Transactions with at least one record in the log
TidsIn(l) == {r.TID : r \in {x \in RecordsOf(l) : x.TID # 0}}

\* Pages with at least one data record in the log
PagesIn(l) == {r.PageID : r \in {x \in RecordsOf(l) : x.Type \in DataTypes}}

C10_SidecarLSNIsEndLSN ==
    ckRet["daemon"].st = "ok" => sidecarFile.data.LSN = ckRet["daemon"].lsn

\* C10, amended: the checkpoint LSN stored in the sidecar is the LSN of the call's
\* CheckpointBegin record; the call's CheckpointEnd record carries it as PrevLSN and lies
\* after it, so the returned LSN is strictly greater than the stored one.
C10_SidecarLSNIsBeginLSN ==
    ckRet["daemon"].st = "ok" =>
        /\ CompleteSnapshot(sidecarFile)
        /\ sidecarFile.data.LSN = ckRet["daemon"].begin
        /\ sidecarFile.data.LSN < ckRet["daemon"].lsn
        /\ \E r \in RecordsOf(log) :
              /\ r.Type = CheckpointEnd
              /\ r.LSN = ckRet["daemon"].lsn
              /\ r.PrevLSN = sidecarFile.data.LSN
        /\ \E r \in RecordsOf(log) :
              r.Type = CheckpointBegin /\ r.LSN = sidecarFile.data.LSN

\* C10 happens: a WriteCheckpoint call has returned whose CheckpointBegin was not the
\* first record of the log.
C10_Witness ==
    /\ ckRet["daemon"].st = "ok"
    /\ ckRet["daemon"].begin > 0
    /\ sidecarFile.exists

----------------------------------------------------------------------------
\* Properties of log truncation

\* Positions of the records of l that truncation at LSN `at` removes
RemovedAt(l, at) == {i \in 1..Len(l) : l[i].LSN < at}

\* The LSNs the checkpoint says are still needed from: the FirstLSN of every active
\* transaction and the rec_lsn of every dirty page
NeededFrom(cp) ==
    {cp.ActiveTxns[t].FirstLSN : t \in DOMAIN cp.ActiveTxns}
        \cup {cp.DirtyPages[p] : p \in DOMAIN cp.DirtyPages}

\* C5: TruncateWAL removes no record whose LSN is at or after the safe truncation LSN
\* (the minimum of the checkpoint LSN, the active transactions' FirstLSNs and the dirty
\* pages' rec_lsns, minus the margin); so, whatever the TruncateConfig, no record at or
\* after the oldest active transaction's FirstLSN or the oldest dirty page's rec_lsn goes.
C5_TruncationKeepsNeededRecords ==
    trunc.pc = "copied" =>
        /\ \A i \in RemovedAt(trunc.pre, trunc.lsn) : trunc.pre[i].LSN < trunc.safe
        /\ \A i \in RemovedAt(trunc.pre, trunc.lsn) :
              \A n \in NeededFrom(GetLastCheckpoint(sidecarFile).cp) : trunc.pre[i].LSN < n
        /\ Len(trunc.tmp) = Len(trunc.pre) - Cardinality(RemovedAt(trunc.pre, trunc.lsn))

\* C6: at every point of performTruncation where a crash may fall, the canonical WAL path
\* holds a complete log file: the whole log as it was before truncation, or the whole
\* truncated log.
C6_CanonicalWalAlwaysComplete ==
    trunc.pc # "idle" =>
        /\ walExists
        /\ log \in {trunc.pre, CopyWALRecords(trunc.pre, trunc.lsn)}

----------------------------------------------------------------------------
\* Properties of the checkpoint sidecar

\* The CheckpointEnd records of the log, by position
EndsIn(l) == {i \in 1..Len(l) : l[i].Type = CheckpointEnd}

\* C7: at every moment, under every interleaving of concurrent WriteCheckpoint calls and
\* at every crash point, the sidecar path is absent or holds exactly one complete
\* serialized snapshot, and that snapshot is the one of the most recently completed
\* checkpoint (the call whose CheckpointEnd is the last one in the log).
C7_SidecarIsLastCompletedSnapshot ==
    sidecarFile.exists =>
        /\ CompleteSnapshot(sidecarFile)
        /\ EndsIn(log) # {}
        /\ log[MaxOf(EndsIn(log))].PrevLSN = sidecarFile.data.LSN

----------------------------------------------------------------------------
\* Properties of Analysis

\* Transactions with a record of the given type in the log
HasRecord(l, t, type) == \E r \in RecordsOf(l) : r.TID = t /\ r.Type = type

\* C11: after analysisPhase over a log without checkpoint seed, the transaction table has
\* exactly one entry per transaction with a record in the log; its status is Committed
\* iff the log holds the transaction's Commit record, Aborted iff it holds its Abort
\* record, Active otherwise.
C11_AnalysisStatuses ==
    (phase = "analysed" /\ ~rmScan.seeded) =>
        /\ DOMAIN transactionTable = TidsIn(log)
        /\ \A t \in DOMAIN transactionTable :
              /\ transactionTable[t].Status = TxnCommitted <=> HasRecord(log, t, CommitRecord)
              /\ transactionTable[t].Status = TxnAborted <=> HasRecord(log, t, AbortRecord)
              /\ transactionTable[t].Status = TxnActive <=>
                    (~HasRecord(log, t, CommitRecord) /\ ~HasRecord(log, t, AbortRecord))

\* C11 happens: an unseeded Analysis has classified an aborted transaction and a loser.
C11_Witness ==
    /\ phase = "analysed" /\ ~rmScan.seeded
    /\ \E t \in DOMAIN transactionTable : transactionTable[t].Status = TxnActive
    /\ \E t \in DOMAIN transactionTable : transactionTable[t].Status = TxnAborted

\* Positions of the records Analysis scanned that dirty page p
ScannedOn(l, p, startLSN) ==
    {i \in 1..Len(l) : /\ l[i].LSN >= startLSN
                       /\ l[i].Type \in DataTypes \cup {CLRRecord}
                       /\ l[i].PageID = p}

\* The dirty pages of the checkpoint Analysis was seeded with (none when unseeded)
SeededPages ==
    IF rmScan.seeded THEN GetLastCheckpoint(rmScan.sidecar).cp.DirtyPages ELSE EmptyMap

\* C12: after analysisPhase, the rec_lsn of every page of the dirty page table is the
\* seeded checkpoint value if the page was seeded, else the LSN of the earliest scanned
\* Update/Insert/Delete/CLR record on the page; later records on the page, of the same or
\* of another transaction, do not change it.
C12_DptKeepsEarliestLSN ==
    phase = "analysed" =>
        /\ DOMAIN dirtyPageTable =
              (DOMAIN SeededPages) \cup {p \in PageIds : ScannedOn(log, p, rmScan.startLSN) # {}}
        /\ \A p \in DOMAIN dirtyPageTable :
              dirtyPageTable[p] =
                 IF p \in DOMAIN SeededPages THEN SeededPages[p]
                 ELSE log[MinOf(ScannedOn(log, p, rmScan.startLSN))].LSN

\* C12 happens: Analysis has scanned two records on one page, written by two different
\* transactions.
C12_Witness ==
    /\ phase = "analysed"
    /\ \E p \in DOMAIN dirtyPageTable :
          \E i, j \in ScannedOn(log, p, rmScan.startLSN) : i < j /\ log[i].TID # log[j].TID

----------------------------------------------------------------------------
\* IsRecoveryNeeded

\* The scan loop of IsRecoveryNeeded: Begin adds the transaction to activeTxns, Commit and
\* Abort delete it
RECURSIVE IsRecoveryNeededScan(_, _, _)
IsRecoveryNeededScan(l, i, active) ==
    IF i > Len(l) THEN active
    ELSE IsRecoveryNeededScan(l, i + 1,
            CASE l[i].Type = BeginRecord -> active \cup {l[i].TID}
              [] l[i].Type \in {CommitRecord, AbortRecord} -> active \ {l[i].TID}
              [] OTHER -> active)

\* IsRecoveryNeeded that takes any Begin record as a reason to recover
IsRecoveryNeeded_AnyBegin(l) == \E r \in RecordsOf(l) : r.Type = BeginRecord

\* IsRecoveryNeeded: len(activeTxns) > 0 after the scan
IsRecoveryNeeded(l) == IsRecoveryNeededScan(l, 1, {}) # {}

\* Transactions with a Begin record and no later Commit or Abort record
Unfinished(l) ==
    {t \in Tids : \E i \in 1..Len(l) :
        /\ l[i].Type = BeginRecord /\ l[i].TID = t
        /\ ~\E j \in (i + 1)..Len(l) :
              l[j].TID = t /\ l[j].Type \in {CommitRecord, AbortRecord}}

\* C13: IsRecoveryNeeded is false for an empty log and for a log in which every
\* transaction with a Begin record has a later Commit or Abort record, and true whenever
\* some transaction has a Begin record with no later Commit or Abort record.
C13_IsRecoveryNeeded ==
    walExists =>
        /\ (log = <<>> => ~IsRecoveryNeeded(log))
        /\ (IsRecoveryNeeded(log) <=> Unfinished(log) # {})

\* C13 happens: after a crash the log holds a committed transaction and an unfinished one,
\* and IsRecoveryNeeded is true.
C13_Witness ==
    /\ phase = "crashed"
    /\ CommittedIn(log) # {}
    /\ Unfinished(log) # {}
    /\ IsRecoveryNeeded(log)

----------------------------------------------------------------------------
\* Properties of Undo

\* Number of Abort records of transaction t in the log
AbortCount(l, t) == Cardinality({i \in 1..Len(l) : l[i].Type = AbortRecord /\ l[i].TID = t})

\* C14: once Recover has returned, the log holds exactly one Abort record for every
\* transaction that was Active at the end of Analysis; Recover appends no Abort record for
\* a Committed or Aborted transaction; repeating Recover adds no second Abort record.
C14_OneAbortPerLoser ==
    /\ \A t \in Tids : AbortCount(log, t) <= 1
    /\ \A t \in CommittedIn(log) : AbortCount(log, t) = 0
    /\ phase = "done" => \A t \in hist.losers : AbortCount(log, t) = 1

\* C14 happens: Recover has run twice on a log with a loser and a committed transaction.
C14_Witness ==
    /\ phase = "done" /\ hist.runs = 2
    /\ hist.losers # {}
    /\ CommittedIn(log) # {}

\* C15: after Recover returns, GetUncommittedTransactions gives exactly the losers, the
\* transactions with records in the log but neither Commit nor Abort when Recover started;
\* also when Analysis was seeded from a checkpoint taken while some of them were active.
C15_UncommittedAreLosers ==
    (phase = "done" /\ hist.runs = 1) =>
        GetUncommittedTransactions(transactionTable) = hist.losers

\* C15 happens: Recover has returned after an Analysis seeded from a checkpoint that holds
\* a loser as active, over a log that also holds a transaction that ended at run time.
C15_Witness ==
    /\ phase = "done" /\ hist.runs = 1
    /\ rmScan.seeded
    /\ \E t \in hist.losers : t \in DOMAIN GetLastCheckpoint(rmScan.sidecar).cp.ActiveTxns
    /\ TidsIn(log) # hist.losers

\* The records Analysis scans from startLSN on
ScannedCount(l, startLSN) == Cardinality({i \in 1..Len(l) : l[i].LSN >= startLSN})

\* The log's only transaction wrote an Update and never committed, and Recover has run
\* twice on it with ResetStats in between (the statistics hold the second scan only).
C16_RepeatedRecovery ==
    /\ phase = "done" /\ hist.runs = 2
    /\ TidsIn(log) = {1}
    /\ HasRecord(log, 1, UpdateRecord)
    /\ hist.losers = {1}
    /\ stats.LogRecordsScanned = ScannedCount(log, rmScan.startLSN)

\* C16: running Recover twice back-to-back on a log whose only transaction wrote an Update
\* and never committed, statistics reset in between, gives the same final page image both
\* times, and the second call performs zero undo operations.
C16_SecondRecoverUndoesNothing ==
    C16_RepeatedRecovery =>
        /\ pages = hist.pages
        /\ stats.UndoOperations = 0

\* C16 happens: the repeated recovery has run, the first call having found the loser's
\* page on disk.
C16_Witness ==
    /\ C16_RepeatedRecovery
    /\ \E p \in WrittenBy(log, 1) : disk[p] # 0

\* ---------------------------------------------------------------------------------------
\* Properties of recovery over a damaged log (SpecFault)
\* ---------------------------------------------------------------------------------------

\* The complete records before the first record that cannot be read
ReadablePrefix == IF damage.at = 0 THEN log ELSE SubSeq(log, 1, damage.at - 1)

\* C17: a log whose last record was torn by the crash is accepted. The torn record never
\* makes Recover return an error, and Analysis processes every complete record before it
\* and nothing else: the tables after Analysis hold exactly the transactions and the pages
\* of these records, a transaction being Committed iff its Commit record is among them.
C17_TornTailAccepted ==
    damage.tail =>
        /\ rmScan.err # "read"
        /\ (phase = "analysed" /\ hist.runs = 0) =>
              /\ DOMAIN transactionTable = TidsIn(ReadablePrefix)
              /\ \A t \in DOMAIN transactionTable :
                    transactionTable[t].Status =
                        IF HasRecord(ReadablePrefix, t, CommitRecord) THEN TxnCommitted ELSE TxnActive
              /\ DOMAIN dirtyPageTable = PagesIn(ReadablePrefix)
              /\ stats.LogRecordsScanned = Len(ReadablePrefix)

\* C17 witness: Recover has returned without error on a log whose torn last record follows
\* the complete records of a committed transaction.
C17_Witness ==
    /\ damage.tail /\ phase = "done" /\ rmScan.err = "none"
    /\ CommittedIn(ReadablePrefix) # {}
    /\ Len(ReadablePrefix) < Len(log)

\* C18: a record that cannot be read and is not the tail of the log (complete records
\* follow it) is fatal: Recover does not return success over such a log.
C18_NonTailDamageIsFatal ==
    (damage.at # 0 /\ ~damage.tail) => phase # "done"

\* C19: when a phase of Recover fails, Recover returns the error and runs nothing after
\* it. A recorded phase error always goes with the failed outcome, never with a later
\* phase or with success, and once it is recorded no step of this Recover changes the
\* log, the pages, the tables or the statistics again: later phases do not run, and the
\* losers that were still to be undone stay as they are.
C19_FailedPhaseStopsRecover ==
    /\ [](rmScan.err # "none" => phase = "failed")
    /\ [][rmScan.err # "none" =>
            UNCHANGED <<log, pages, disk, transactionTable, dirtyPageTable, stats, undoTodo>>]_vars

\* C19 witness: the undo of one loser has failed while another loser was still to be
\* undone; that loser has no Abort record.
C19_Witness ==
    /\ phase = "failed" /\ rmScan.err = "undo"
    /\ undoTodo # {}
    /\ \A t \in undoTodo : AbortCount(log, t) = 0

\* ---------------------------------------------------------------------------------------
\* Contents of the checkpoint snapshot
\* ---------------------------------------------------------------------------------------

\* C20: whatever LogBegin, LogUpdate, LogInsert, LogCommit and LogAbort calls came before,
\* the sidecar that WriteCheckpoint writes holds as ActiveTxns exactly the transactions
\* with a Begin record and neither Commit nor Abort record, and its DirtyPages hold every
\* page touched by a logged data record, pages written only by committed transactions
\* included.
C20_SnapshotMatchesLog ==
    [][(\E p \in Procs : ckPc[p] = "begun" /\ ckPc'[p] = "renamed") =>
          LET cp == DeserializeCheckpoint(sidecarFile'.data)
          IN  /\ CompleteSnapshot(sidecarFile')
              /\ DOMAIN cp.ActiveTxns = Unfinished(log)
              /\ PagesIn(log) \subseteq DOMAIN cp.DirtyPages]_vars

\* C20 witness: WriteCheckpoint has just written a sidecar with an active transaction and
\* with a page that only committed transactions wrote.
C20_Witness ==
    /\ \E p \in Procs : ckPc[p] = "renamed"
    /\ Len(log) > 0 /\ log[Len(log)].Type = CheckpointBegin
    /\ LET cp == DeserializeCheckpoint(sidecarFile.data)
       IN  /\ DOMAIN cp.ActiveTxns # {}
           /\ \E pg \in DOMAIN cp.DirtyPages :
                 \A i \in 1..Len(log) :
                    (log[i].Type \in DataTypes /\ log[i].PageID = pg) =>
                        log[i].TID \in CommittedIn(log)

\* ---------------------------------------------------------------------------------------
\* Checkpoint record codec (SpecCodec)
\* ---------------------------------------------------------------------------------------

\* C21: for every checkpoint record cp, DeserializeCheckpoint(SerializeCheckpoint(cp))
\* succeeds and gives a record with the same LSN, the same active transaction ids each with
\* the same FirstLSN, LastLSN and UndoNextLSN, and the same dirty page keys each with the
\* same rec_lsn.
C21_CheckpointRoundTrip ==
    codec.pc = "deserialized" =>
        /\ codec.res = "ok"
        /\ codec.out.LSN = codec.cp.LSN
        /\ DOMAIN codec.out.ActiveTxns = DOMAIN codec.cp.ActiveTxns
        /\ \A t \in DOMAIN codec.cp.ActiveTxns :
              /\ codec.out.ActiveTxns[t].FirstLSN = codec.cp.ActiveTxns[t].FirstLSN
              /\ codec.out.ActiveTxns[t].LastLSN = codec.cp.ActiveTxns[t].LastLSN
              /\ codec.out.ActiveTxns[t].UndoNextLSN = codec.cp.ActiveTxns[t].UndoNextLSN
        /\ DOMAIN codec.out.DirtyPages = DOMAIN codec.cp.DirtyPages
        /\ \A p \in DOMAIN codec.cp.DirtyPages : codec.out.DirtyPages[p] = codec.cp.DirtyPages[p]

\* C21 witness: a record with two active transactions whose three LSNs are not all equal,
\* and two dirty pages, has gone through the codec.
C21_Witness ==
    /\ codec.pc = "deserialized"
    /\ DOMAIN codec.cp.ActiveTxns = Tids
    /\ DOMAIN codec.cp.DirtyPages = PageIds
    /\ codec.cp.LSN # 0
    /\ \E t \in Tids : codec.cp.ActiveTxns[t].FirstLSN # codec.cp.ActiveTxns[t].LastLSN

\* ---------------------------------------------------------------------------------------
\* Properties of the checkpoint daemon (SpecDaemon)
\* ---------------------------------------------------------------------------------------

\* Bytes in the WAL file
WALSize == Len(log) * RecSize

\* C22: the size check of the daemon starts a checkpoint only when the WAL file holds at
\* least MaxWALSize bytes: a checkpoint that the size check started is never in flight
\* over a smaller log.
C22_SizeTriggerOnlyWhenLarge ==
    (daemon.pc = "ckpt" /\ daemon.reason = "size") => WALSize >= daemon.cfg.MaxWALSize

\* Commit records in the log after its last CheckpointBegin record
CommitsSinceCheckpoint(l) ==
    LET cks  == {i \in 1..Len(l) : l[i].Type = CheckpointBegin}
        from == IF cks = {} THEN 0 ELSE MaxOf(cks)
    IN  Cardinality({i \in (from + 1)..Len(l) : l[i].Type = CommitRecord})

\* The loop of a started daemon waits in its select and has not been told to stop
DaemonWaiting == daemon.running /\ daemon.pc = "select" /\ ~daemon.stopClosed

\* C23: once the number of transactions committed since the last checkpoint has reached
\* MaxTransactions, a running, enabled daemon starts a checkpoint, without any tick of
\* the time or size tickers being needed for it.
C23_TransactionTrigger ==
    (DaemonWaiting /\ CommitsSinceCheckpoint(log) >= daemon.cfg.MaxTransactions)
        ~> (daemon.pc = "ckpt" \/ daemon.stopClosed)

\* How long after the tick that triggered it the last checkpoint recorded its start time
StartLatency == (daemon.lastCheckpoint - daemon.started) % daemon.cfg.Interval

\* C24: with the size trigger disabled and no checkpoint failing, the daemon starts a
\* checkpoint at every tick of its Interval ticker: each step of the loop that takes a
\* tick from ticker.C goes on to triggerCheckpoint, also when the previous checkpoint
\* recorded a start time one clock unit later than its tick.
C24_CheckpointAtEveryTick ==
    [][(/\ daemon.cfg.MaxWALSize = 0
        /\ daemon.stats.FailedCheckpoints = 0
        /\ daemon.stats.TotalCheckpoints > 0 => StartLatency <= 1
        /\ daemon.pc = "select" /\ daemon.tick /\ ~daemon'.tick)
            => daemon'.pc = "ckpt"]_vars

\* Checkpoints the loop has started: those counted by run after triggerCheckpoint
\* returned, and the one in flight
TriggersStarted ==
    daemon.stats.TimeBasedTriggers + daemon.stats.SizeBasedTriggers
        + (IF daemon.pc = "ckpt" THEN 1 ELSE 0)

\* Moments at which the tickers have fired since run created them
TickMoments == (daemon.now - daemon.started) \div CheckPeriod

\* C25: when the time trigger and the size trigger are due at the same moment, the daemon
\* performs one checkpoint for them. With Interval equal to the period of the size check
\* and a WAL that is never smaller than MaxWALSize, both triggers are due at every moment the
\* tickers fire, so the daemon has started at most one checkpoint per such moment.
C25_OverlappingTriggersCoalesce ==
    (/\ daemon.pc \in {"select", "ckpt", "exited"}
     /\ daemon.cfg.Interval = CheckPeriod
     /\ daemon.cfg.MaxWALSize = RecSize
     /\ daemon.stats.FailedCheckpoints = 0)
        => TriggersStarted <= TickMoments

\* C26: Stop on a running daemon returns only after the loop of the daemon has exited.
\* Once Stop has returned the loop has exited (so no checkpoint of the daemon is in flight
\* and none starts any more), IsRunning is false, and a checkpoint that was in flight
\* when Stop was called has run to its end.
C26_StopWaitsForLoop ==
    daemon.stopPc = "returned" =>
        /\ daemon.pc = "exited"
        /\ ~daemon.running
        /\ daemon.stopSaw.pc = "ckpt" =>
              daemon.stats.TotalCheckpoints + daemon.stats.FailedCheckpoints > daemon.stopSaw.done

\* C26 witness: Stop has returned after having been called during a checkpoint, which
\* succeeded after the call.
C26_Witness ==
    /\ daemon.stopPc = "returned"
    /\ daemon.stopSaw.pc = "ckpt"
    /\ daemon.stats.TotalCheckpoints > daemon.stopSaw.done

\* ---------------------------------------------------------------------------------------
\* Properties of the truncated log (SpecTrunc)
\* ---------------------------------------------------------------------------------------

\* C27: when TruncateWAL performs a truncation, the WAL file that replaces the old one
\* still holds at least MinRetainedSize bytes of log.
C27_MinRetainedSizeIsKept ==
    [][(trunc.pc = "backedup" /\ trunc'.pc = "activated")
          => Len(log') * RecSize >= trunc.retain]_vars

\* The LSN of the last record of l, the one its last append returned
LastLSNOf(l) == l[Len(l)].LSN

\* C28: the LSNs that the appends on one WAL instance return are strictly increasing in
\* append order, also across a TruncateWAL: the LSN an append returns is greater than
\* that of the record before it in the file and, after a truncation, greater than the
\* last LSN returned before the truncation.
C28_AppendLSNsIncrease ==
    [][(phase = "run" /\ trunc.pc = "idle" /\ Len(log') = Len(log) + 1) =>
          /\ Len(log) > 0 => LastLSNOf(log') > LastLSNOf(log)
          /\ Len(trunc.pre) > 0 => LastLSNOf(log') > LastLSNOf(trunc.pre)]_vars

\* ---------------------------------------------------------------------------------------
\* Properties of Redo and Undo over Update, Insert and Delete records (SpecData)
\* ---------------------------------------------------------------------------------------

\* Positions of the records Redo has to replay: Update, Insert, Delete and CLR records on
\* a page of the dirty page table, at or after the page's rec_lsn
RedoCandidates(l, dpt) ==
    {i \in 1..Len(l) :
        /\ l[i].Type \in DataTypes \cup {CLRRecord}
        /\ l[i].PageID \in DOMAIN dpt
        /\ l[i].LSN >= dpt[l[i].PageID]}

\* C29: Redo replays every Update, Insert, Delete and CLR record whose page is in the
\* dirty page table and whose LSN is at least the page's rec_lsn, whatever the status of
\* its transaction, and nothing when the table is empty; after the Redo phase of a first
\* Recover, RedoOperations is the number of these records.
C29_RedoReplaysAllDataRecords ==
    (phase = "redone" /\ hist.runs = 0) =>
        stats.RedoOperations = Cardinality(RedoCandidates(log, dirtyPageTable))

\* Positions of the Update, Insert and Delete records of the losers: the records that the
\* Undo phase of the first Recover undoes
UndoneRecords(l, losers) ==
    {i \in 1..Len(l) : l[i].Type \in DataTypes /\ l[i].TID \in losers}

\* Positions of the CLR records that compensate the record at position i
CompensationsOf(l, i) ==
    {j \in 1..Len(l) :
        /\ l[j].Type = CLRRecord
        /\ l[j].TID = l[i].TID
        /\ l[j].PageID = l[i].PageID
        /\ l[j].AfterImage = l[i].BeforeImage
        /\ l[j].UndoNextLSN = l[i].PrevLSN
        /\ l[j].LSN > l[i].LSN}

\* C30: for every Update, Insert or Delete record R of a loser that the Undo phase undoes,
\* a CLR is appended to the log with after_image = R.before_image and undo_next_lsn =
\* R.prev_lsn at an LSN greater than R's; after the first Recover the log holds one CLR
\* per undone record, as many as UndoOperations counts.
C30_ClrPerUndoneRecord ==
    (phase = "done" /\ hist.runs = 1) =>
        /\ \A i \in UndoneRecords(log, hist.losers) : CompensationsOf(log, i) # {}
        /\ Cardinality({j \in 1..Len(log) : log[j].Type = CLRRecord}) = stats.UndoOperations

\* ---------------------------------------------------------------------------------------
\* Undo across a crash, order of Undo (SpecUndoCrash, SpecData)
\* ---------------------------------------------------------------------------------------

\* C31: no data record of a loser is undone more than once across a crash during Undo
\* followed by a restart of recovery: a record that the interrupted Undo had undone is
\* not undone again by the undoTransaction of the restarted recovery.
C31_NoRecordUndoneTwice ==
    [][\A t \in Tids :
          (phase = "undoing" /\ t \in undoTodo /\ undoTodo' = undoTodo \ {t}
                              /\ phase' \in {"undoing", "done"}) =>
              UndoChain(ReadRecords(log, damage).recs, t, transactionTable[t].LastLSN,
                        Len(log) + 1) \cap hist.undoneBeforeCrash = {}]_vars

\* The records that undoTransaction(t) undoes when it is called now
ChainOf(t) ==
    UndoChain(ReadRecords(log, damage).recs, t, transactionTable[t].LastLSN, Len(log) + 1)

\* C32: the Undo phase undoes the records of all losers in strictly descending LSN order
\* across transactions: every record that a step of Undo undoes has a higher LSN than
\* every record of a loser that is still to be undone after the step.
C32_UndoInDescendingLSNOrder ==
    [][\A t \in Tids :
          (phase = "undoing" /\ t \in undoTodo /\ undoTodo' = undoTodo \ {t}
                              /\ phase' \in {"undoing", "done"}) =>
              \A t2 \in undoTodo \ {t} : \A a \in ChainOf(t), b \in ChainOf(t2) : a > b]_vars

\* ---------------------------------------------------------------------------------------
\* Completion of a checkpoint (SpecCkpt)
\* ---------------------------------------------------------------------------------------

\* Positions of the CheckpointBegin record that the CheckpointEnd at position j points to
BeginOf(l, j) ==
    {i \in 1..(j - 1) : l[i].Type = CheckpointBegin /\ l[i].LSN = l[j].PrevLSN}

\* C33: every CheckpointEnd record of the log has prev_lsn equal to the LSN of the
\* CheckpointBegin appended by the same WriteCheckpoint call, also when two calls
\* interleave (each End points to a Begin before it, no two Ends to the same one, and the
\* End a caller appends points to that caller's beginLSN); the End is appended only after
\* the sidecar of that call was published under the canonical name; and the call returns
\* success, with the LSN of its End, only with the End in the log.
C33_CheckpointEndCompletesItsCall ==
    /\ [](\A j \in 1..Len(log) : log[j].Type = CheckpointEnd =>
              /\ BeginOf(log, j) # {}
              /\ \A k \in 1..Len(log) :
                    (log[k].Type = CheckpointEnd /\ log[k].PrevLSN = log[j].PrevLSN) => k = j)
    /\ [][\A p \in Procs :
              (ckPc[p] = "renamed" /\ ckPc'[p] = "idle" /\ Len(log') = Len(log) + 1) =>
                  /\ log'[Len(log')].Type = CheckpointEnd
                  /\ log'[Len(log')].PrevLSN = ckBegin[p]
                  /\ ckPublished[p]
                  /\ ckRet'[p] = [st |-> "ok", lsn |-> log'[Len(log')].LSN,
                                  begin |-> ckBegin[p]]]_vars

\* ---------------------------------------------------------------------------------------
\* LSN-bearing state across a truncation (SpecTrunc)
\* ---------------------------------------------------------------------------------------

\* The records of the log before the truncation that the truncation retains
RetainedOf(pre, truncateLSN) == SelectSeq(pre, LAMBDA r : r.LSN >= truncateLSN)

\* The old LSN of the first retained record: the offset by which LSNs are re-based
RebaseOffset == RetainedOf(trunc.pre, trunc.lsn)[1].LSN

\* C34: after a truncation that removes a log prefix, all LSN-bearing state designates
\* the same log records as before: when performTruncation finishes, the writer's
\* end-of-log, each dirty page's rec_lsn, each active transaction's first, last and
\* undo-next LSN, the sidecar's checkpoint LSN and the prev_lsn of the retained records
\* have all been lowered by the old LSN of the first retained record (for the LSNs that
\* designate a retained record).
C34_TruncationRebasesAllLSNs ==
    [][(/\ trunc.pc = "activated" /\ trunc'.pc = "idle" /\ phase' = "run"
        /\ RetainedOf(trunc.pre, trunc.lsn) # <<>>
        /\ RetainedOf(trunc.pre, trunc.lsn)[1].LSN > 0) =>
          LET off  == RebaseOffset
              kept == RetainedOf(trunc.pre, trunc.lsn)
              Same(old, new) == old >= off => new = old - off
          IN  /\ nextLSN' = nextLSN - off
              /\ \A p \in DOMAIN dirtyPages : dirtyPages[p] >= off =>
                    p \in DOMAIN dirtyPages' /\ dirtyPages'[p] = dirtyPages[p] - off
              /\ \A t \in DOMAIN activeTxns :
                    /\ t \in DOMAIN activeTxns'
                    /\ Same(activeTxns[t].FirstLSN, activeTxns'[t].FirstLSN)
                    /\ Same(activeTxns[t].LastLSN, activeTxns'[t].LastLSN)
                    /\ Same(activeTxns[t].UndoNextLSN, activeTxns'[t].UndoNextLSN)
              /\ (GetLastCheckpoint(sidecarFile).res = "ok") =>
                    Same(GetLastCheckpoint(sidecarFile).cp.LSN,
                         GetLastCheckpoint(sidecarFile').cp.LSN)
              /\ Len(log') = Len(kept)
              /\ \A i \in 1..Len(kept) :
                    /\ log'[i].LSN = kept[i].LSN - off
                    /\ Same(kept[i].PrevLSN, log'[i].PrevLSN)]_vars

\* ---------------------------------------------------------------------------------------
\* Statistics of Recover (Spec, SpecData)
\* ---------------------------------------------------------------------------------------

\* Number of Update, Insert and Delete records of the log that belong to a transaction
\* of the set ts
DataRecordsOf(l, ts) ==
    Cardinality({i \in 1..Len(l) : l[i].Type \in DataTypes /\ l[i].TID \in ts})

\* C35: when a Recover call that started from zeroed statistics (the first one on a new
\* manager) returns, TransactionsRecovered is the number of entries of the transaction table,
\* DirtyPagesFound the number of entries of the dirty page table, TransactionsUndone the
\* number of transactions Active at the end of Analysis, and UndoOperations the number of
\* Update, Insert and Delete records that belong to those transactions.
C35_StatisticsMatchTables ==
    [][(phase # "done" /\ phase' = "done" /\ hist.runs = 0) =>
          /\ stats'.TransactionsRecovered = Cardinality(DOMAIN transactionTable')
          /\ stats'.DirtyPagesFound = Cardinality(DOMAIN dirtyPageTable')
          /\ stats'.TransactionsUndone = Cardinality(ActiveIn(transactionTable'))
          /\ stats'.UndoOperations = DataRecordsOf(log', ActiveIn(transactionTable'))]_vars

C35_Witness ==
    /\ phase = "done" /\ hist.runs = 1
    /\ stats.UndoOperations >= 2
    /\ stats.TransactionsUndone >= 1
    /\ stats.TransactionsRecovered > stats.TransactionsUndone
    /\ stats.DirtyPagesFound >= 1

\* ---------------------------------------------------------------------------------------
\* A checkpoint taken while transactions run (SpecCkpt)
\* ---------------------------------------------------------------------------------------

\* Positions of the records of transaction t in the log
RecordsOfTxn(l, t) == {i \in 1..Len(l) : l[i].TID = t}

\* Records of the log that the snapshot cp certainly does not reflect: the Begin record
\* of an unfinished transaction it does not list, a record of a listed transaction after
\* the last_lsn listed for it, a data record on a page it does not list
NotReflected(l, cp) ==
    {i \in 1..Len(l) :
        \/ /\ l[i].Type = BeginRecord
           /\ l[i].TID \in Unfinished(l) \ DOMAIN cp.ActiveTxns
        \/ /\ l[i].TID \in DOMAIN cp.ActiveTxns
           /\ l[i].LSN > cp.ActiveTxns[l[i].TID].LastLSN
        \/ /\ l[i].Type \in DataTypes
           /\ l[i].PageID \notin DOMAIN cp.DirtyPages}

\* C36: while WriteCheckpoint runs concurrently with transactions, every log record that
\* the snapshot in the sidecar does not reflect has an LSN at or above the LSN stored in
\* the sidecar, so that Analysis seeded from the sidecar and scanning from that LSN
\* misses no record: at any moment (a crash can come at any moment) it would classify as
\* Active exactly the transactions with a Begin and no Commit or Abort record, with the
\* LSN of their last record as last_lsn, and would have every written page in its dirty
\* page table, no later than the page's first data record.
C36_FuzzySnapshotLosesNothing ==
    LET ck == GetLastCheckpoint(sidecarFile)
        r  == AnalysisResult(log, ck)
    IN  ck.res = "ok" =>
          /\ \A i \in NotReflected(log, ck.cp) : log[i].LSN >= ck.cp.LSN
          /\ {t \in DOMAIN r.tt : r.tt[t].Status = TxnActive} = Unfinished(log)
          /\ \A t \in Unfinished(log) :
                r.tt[t].LastLSN = log[MaxOf(RecordsOfTxn(log, t))].LSN
          /\ \A i \in 1..Len(log) : log[i].Type \in DataTypes =>
                /\ log[i].PageID \in DOMAIN r.dpt
                /\ r.dpt[log[i].PageID] <= log[i].LSN

\* C36 witness: a checkpoint is still in progress, its snapshot is the sidecar, and a
\* transaction has begun and written a page since the snapshot was taken.
C36_Witness ==
    /\ \E p \in Procs : ckPc[p] = "renamed" /\ sidecarFile.data = ckData[p]
    /\ GetLastCheckpoint(sidecarFile).res = "ok"
    /\ LET cp == GetLastCheckpoint(sidecarFile).cp
       IN  \E i \in 1..Len(log) :
              /\ log[i].Type \in DataTypes
              /\ log[i].LSN > cp.LSN
              /\ log[i].TID \notin DOMAIN cp.ActiveTxns
              /\ log[i].PageID \notin DOMAIN cp.DirtyPages

\* ---------------------------------------------------------------------------------------
\* Start and Stop called repeatedly (SpecDaemonRestart)
\* ---------------------------------------------------------------------------------------

\* C37: for every sequence of Start and Stop calls on one daemon no call panics, and
\* after every Start that returned nil on an enabled daemon the loop is live until the
\* next Stop: as long as Stop has not been called again, run() has not returned.
C37_StartStopSequences ==
    /\ daemon.stopPc # "panicked"
    /\ (daemon.running /\ daemon.stopPc \in {"none", "restarted"}) =>
          daemon.pc \in {"select", "ckpt"}


\* Every record's prev_lsn is 0 or the LSN of a strictly earlier record of the log
WellChained(recs) ==
    \A i \in 1..Len(recs) :
        \/ recs[i].PrevLSN = 0
        \/ \E j \in 1..(i - 1) : recs[j].LSN = recs[i].PrevLSN /\ recs[j].LSN < recs[i].LSN

StrictlyDecreasing(s) == \A i \in 1..(Len(s) - 1) : s[i + 1] < s[i]

\* C38: on a log in which each record's prev_lsn is 0 or the LSN of a strictly earlier
\* record, the chain walk of every transaction Undo has still to roll back visits strictly
\* decreasing LSNs and comes to an end, so undoTransaction returns
C38_UndoWalkTerminates ==
    LET recs == ReadRecords(log, damage).recs IN
    (phase = "undoing" /\ WellChained(recs)) =>
        \A t \in undoTodo :
            /\ StrictlyDecreasing(WalkLSNs(recs, transactionTable[t].LastLSN, Len(recs) + 1))
            /\ WalkEnds(recs, transactionTable[t].LastLSN)

C38_Witness ==
    LET recs == ReadRecords(log, damage).recs IN
    /\ phase = "undoing" /\ WellChained(recs)
    /\ \E t \in undoTodo : Len(WalkLSNs(recs, transactionTable[t].LastLSN, Len(recs) + 1)) >= 2


\* The transactions Analysis classifies as Active on WAL file l with sidecar file side
LosersOn(l, side) == ActiveIn(AnalysisResult(l, GetLastCheckpoint(side)).tt)

\* The data records Undo rolls back on WAL file l with sidecar file side, each named by
\* its place in the log before truncation (shift = number of records removed in front)
UndoneOn(l, side, shift) ==
    LET tt == AnalysisResult(l, GetLastCheckpoint(side)).tt IN
    UNION {{MinOf(RecAt(l, lsn)) + shift : lsn \in UndoChain(l, t, tt[t].LastLSN, Len(l) + 1)} :
              t \in ActiveIn(tt)}

\* WAL file l ends with the Begin and End records of a checkpoint whose snapshot is the
\* content of sidecar file side: the files as WriteCheckpoint leaves them when
\* TruncateAfterCheckpoint goes on to TruncateWAL
CheckpointedLast(l, side) ==
    /\ Len(l) >= 2
    /\ l[Len(l) - 1].Type = CheckpointBegin /\ l[Len(l)].Type = CheckpointEnd
    /\ GetLastCheckpoint(side).res = "ok"
    /\ GetLastCheckpoint(side).cp.LSN = l[Len(l) - 1].LSN

\* C39: when the truncation of TruncateAfterCheckpoint has removed a prefix and put the
\* rewritten file in place, Recover on the rewritten WAL file and the sidecar finds the
\* same losers and rolls back the same data records as Recover on the log as it was
\* before the truncation
C39_TruncationPreservesRecovery ==
    [][(/\ trunc.pc = "backedup" /\ trunc'.pc = "activated"
        /\ Len(log') < Len(trunc.pre)
        /\ CheckpointedLast(trunc.pre, sidecarFile)) =>
          LET shift == Len(trunc.pre) - Len(log') IN
          /\ LosersOn(log', sidecarFile') = LosersOn(trunc.pre, sidecarFile)
          /\ UndoneOn(log', sidecarFile', shift) = UndoneOn(trunc.pre, sidecarFile, 0)]_vars


\* C40: on every WAL file and sidecar the engine has left behind, IsRecoveryNeeded is true
\* exactly when the Analysis of a Recover started on these files would classify at least
\* one transaction as Active
C40_IsRecoveryNeededAgreesWithAnalysis ==
    (walExists /\ trunc.pc = "idle" /\ phase \in {"run", "crashed"}) =>
        (IsRecoveryNeeded(log) <=> LosersOn(log, sidecarFile) # {})

====
